---- MODULE Spec2Model ----
(***************************************************************************)
(* Verification model of the XXT-AGENT market pipeline.                    *)
(*                                                                         *)
(* Part I   quote-normalizer: trades -> 1-minute candles in Redis,         *)
(*          /flush -> candles_1m table + candle_1m events on the bus.      *)
(* Part II  event-fusion-engine: FusionStore evidence lists in Redis,      *)
(*          the candle_1m join and compute_severity.                       *)
(* Part III alert-engine: thresholds, cooldown marks, push channels.       *)
(* Part IV  trade-planner-worker: POST /analyze, oracle and fallback.      *)
(*                                                                         *)
(* Prices and volumes are floats in the code; the model draws them from    *)
(* small integer sets, on which float arithmetic is exact.                 *)
(***************************************************************************)
EXTENDS Integers, Sequences, FiniteSets, TLC

VARIABLES
    \* ---- quote-normalizer ----
    now_ms,       \* wall clock, milliseconds (time.time() * 1000)
    clock_left,   \* clock advances the model still allows
    idle_left,    \* idle periods (a whole key lifetime) the model still allows
    slots,        \* number of /flush requests that may be in flight together
    trades_left,  \* /pubsub deliveries the model still allows
    kv,           \* Redis: candle key -> [fields, expire_at]
    received,     \* history: candle key -> summary of the trades applied since the
                  \* key was created (first, last, extremes, total, count)
    table,        \* candles_1m: set of rows
    bus,          \* events.normalized: sequence of published candle_1m events
    pc,           \* per /flush request: position in handle_flush
    fl,           \* per /flush request: locals of handle_flush
    \* ---- event-fusion-engine ----
    now_unix,     \* wall clock, seconds (int(time.time()))
    fu_clock_left,  \* clock advances the model still allows
    msgs_left,    \* news/social deliveries the model still allows
    lists,        \* Redis: evidence key -> [items, expire_at, arrivals]
    fpc,          \* per /pubsub request: position in handle_pubsub
    fh,           \* per /pubsub request: locals of the news/social branch
    candles_left, \* candle_1m deliveries the model still allows
    latest,       \* Redis: latest-close key -> [close, minute_ts_ms, expire_at]
    fbus,         \* events.normalized: sequence of published fused events
    fc,           \* per /pubsub request: locals of the candle_1m branch
    fu_slots,     \* number of /pubsub requests that may be in flight together
    \* ---- calls of pure functions ----
    sev_args,     \* compute_severity: the arguments of the call
    sev_result,   \* compute_severity: what the call returned
    mb_t,         \* minute_bucket_ms: the argument of the call
    mb_result,    \* minute_bucket_ms: <<f(t), f(f(t))>>, <<>> before the call
    sx_text,      \* extract_symbols_from_text: the argument, a sequence of characters
    sx_result,    \* extract_symbols_from_text: the list returned, NotCalled before
    \* ---- alert-engine ----
    ae_now,       \* wall clock, seconds
    ae_clock_left,  \* clock advances the model still allows
    ae_msgs_left, \* /pubsub deliveries the model still allows
    cooldown,     \* Redis: cooldown key -> [value, expire_at]
    calls,        \* <<channel, kind, symbol>> -> calls of send_telegram / send_line
    apc,          \* per /pubsub request: position in handle_pubsub
    ah,           \* per /pubsub request: locals of handle_pubsub
    settings,     \* which channels have their credentials set
    ae_slots,     \* number of /pubsub requests that may be in flight together
    \* ---- trade-planner-worker ----
    pl_reqs_left, \* /analyze requests the model still allows
    pl_pc,        \* position of the /analyze request in handle_analyze
    pl_h,         \* locals of handle_analyze, and what the oracle answered
    pl_resp,      \* the response of the latest /analyze request
    gemini_api_key, \* whether settings.gemini_api_key is set
    \* ---- quote-normalizer /pubsub, request and response ----
    in_req,       \* the latest push request delivered to /pubsub
    in_status,    \* the HTTP status it was answered with
    \* ---- market-streamer ----
    st_pc,        \* position of run_streamer_loop: "top", "stream" or "sleep"
    st_attempt,   \* its local attempt
    st_base,      \* base of the latest exp_backoff_delay call, milliseconds
    st_delay,     \* delay the latest call returned, milliseconds
    st_published, \* events published to the raw quotes topic
    st_failures,  \* history: exceptions in a row since the last stream that
                  \* delivered an event or ended by itself
    st_last_end,  \* history: how the latest connection ended: "none", "raised", "closed"
    st_slept,     \* history: milliseconds slept since the latest connection ended
    st_events_left, \* events the model still lets the provider send
    st_ends_left  \* stream ends (of either kind) the model still allows

qn_vars == <<now_ms, clock_left, idle_left, slots, trades_left, kv, received, table, bus, pc, fl>>
fu_vars == <<now_unix, fu_clock_left, msgs_left, lists, fpc, fh,
             candles_left, latest, fbus, fc, fu_slots>>
fn_vars == <<sev_args, sev_result, mb_t, mb_result, sx_text, sx_result>>
ae_vars == <<ae_now, ae_clock_left, ae_msgs_left, cooldown, calls, apc, ah, settings, ae_slots>>
pl_vars == <<pl_reqs_left, pl_pc, pl_h, pl_resp, gemini_api_key>>
in_vars == <<in_req, in_status>>
st_vars == <<st_pc, st_attempt, st_base, st_delay, st_published, st_failures,
             st_last_end, st_slept, st_events_left, st_ends_left>>
vars == <<qn_vars, fu_vars, fn_vars, ae_vars, pl_vars, in_vars, st_vars>>
\* What the steps of one service leave alone: the other services' state.
not_qn_vars == <<fu_vars, fn_vars, ae_vars, pl_vars, in_vars, st_vars>>
not_fu_vars == <<qn_vars, fn_vars, ae_vars, pl_vars, in_vars, st_vars>>
not_fn_vars == <<qn_vars, fu_vars, ae_vars, pl_vars, in_vars, st_vars>>
not_ae_vars == <<qn_vars, fu_vars, fn_vars, pl_vars, in_vars, st_vars>>
not_pl_vars == <<qn_vars, fu_vars, fn_vars, ae_vars, in_vars, st_vars>>
not_in_vars == <<fu_vars, fn_vars, ae_vars, pl_vars, st_vars>>
not_st_vars == <<qn_vars, fu_vars, fn_vars, ae_vars, pl_vars, in_vars>>

----------------------------------------------------------------------------
(* Bounds of the model *)

MaxTrades == 2
MaxClock == 2
MaxIdle == 1
MaxOverlapTrades == 2

(* Settings (config.py defaults) and constants of the code *)

MINUTE_MS == 60000
finalize_before_sec == 120
candle_ttl_sec == 10800

(* Inputs *)

\* A symbol is the sequence of its ':'-free segments: "AAPL" is <<"AAPL">>.
Symbols == {<<"AAPL">>}
\* Provider timestamps of trades: two inside minute 0, one on the boundary of
\* minute 1.
TradeTs == {MINUTE_MS \div 4, (3 * MINUTE_MS) \div 4, MINUTE_MS}
\* The clock moves by a minute and a half, or idles for a whole key lifetime.
ClockStepMs == MINUTE_MS + MINUTE_MS \div 2
IdleMs == candle_ttl_sec * 1000
\* Concurrent /flush requests (service instances share Redis, SQL and the bus).
FlushProcs == {1, 2}

----------------------------------------------------------------------------
(* Pure helpers *)

Max(a, b) == IF a >= b THEN a ELSE b
Min(a, b) == IF a <= b THEN a ELSE b

\* A bucket function that rounds up to the next minute.
minute_bucket_up(ts_ms) == ((ts_ms + MINUTE_MS - 1) \div MINUTE_MS) * MINUTE_MS
\* main.py: (ts_ms // 60000) * 60000
minute_bucket_ms(ts_ms) == (ts_ms \div MINUTE_MS) * MINUTE_MS

\* redis_candles.py: f"candle:1m:{symbol}:{minute_ts_ms}", as the list of the
\* ':'-separated parts of that string.
candle_key(symbol, minute_ts_ms) ==
    <<"candle", "1m">> \o symbol \o <<ToString(minute_ts_ms)>>

\* The integers whose decimal form can occur as a key part in this model.
KeyMinutes == {minute_bucket_ms(t) : t \in TradeTs}
\* int(s): defined only on decimal strings.
IsInt(s) == \E n \in KeyMinutes : ToString(n) = s
int(s) == CHOOSE n \in KeyMinutes : ToString(n) = s

\* handle_flush: parts = key.split(":"); minute_ts_ms = int(parts[-1]);
\* symbol = parts[-2].
key_minute(key) == int(key[Len(key)])
key_symbol(key) == <<key[Len(key) - 1]>>

NoKeys == [k \in {} |-> 0]
Remove(f, k) == [x \in DOMAIN f \ {k} |-> f[x]]
Put(f, k, v) == [x \in DOMAIN f \cup {k} |-> IF x = k THEN v ELSE f[x]]

----------------------------------------------------------------------------
(* Redis candle store *)

\* History of one key, by the definitions of first, last, maximum, minimum and
\* sum over the sequence of trades received.
First(price, volume, ts_ms) ==
    [first_price |-> price, last_price |-> price, last_ts_ms |-> ts_ms,
     max_price |-> price, min_price |-> price, sum_volume |-> volume, count |-> 1]
Apply(h, price, volume, ts_ms) ==
    [first_price |-> h.first_price, last_price |-> price, last_ts_ms |-> ts_ms,
     max_price |-> Max(h.max_price, price), min_price |-> Min(h.min_price, price),
     sum_volume |-> h.sum_volume + volume, count |-> h.count + 1]

\* LUA_UPSERT_CANDLE raises in its else branch when tonumber(HGET high/low) is
\* nil: comparing a number with nil is a Lua error, before any write.
LuaUpsertRaises(key) ==
    /\ key \in DOMAIN kv
    /\ ~({"high", "low"} \subseteq DOMAIN kv[key].fields)

\* A script that forgets to raise "high".
LuaUpsertFieldsKeepsHigh(old, exists, price, vol, ts_ms) ==
    IF ~exists
    THEN [open |-> price, high |-> price, low |-> price, close |-> price,
          volume |-> vol, last_update_ms |-> ts_ms]
    ELSE LET h2 == IF price < old.low THEN Put(old, "low", price) ELSE old
             h3 == Put(h2, "close", price)
             h4 == Put(h3, "volume", h3.volume + vol)
         IN Put(h4, "last_update_ms", ts_ms)

\* A script that overwrites the volume instead of adding to it.
LuaUpsertFieldsLastVolume(old, exists, price, vol, ts_ms) ==
    IF ~exists
    THEN [open |-> price, high |-> price, low |-> price, close |-> price,
          volume |-> vol, last_update_ms |-> ts_ms]
    ELSE LET h1 == IF price > old.high THEN Put(old, "high", price) ELSE old
             h2 == IF price < old.low THEN Put(h1, "low", price) ELSE h1
             h3 == Put(h2, "close", price)
             h4 == Put(h3, "volume", vol)
         IN Put(h4, "last_update_ms", ts_ms)

\* LUA_UPSERT_CANDLE, one atomic script call: the hash after the call.
LuaUpsertFields(old, exists, price, vol, ts_ms) ==
    IF ~exists
    THEN [open |-> price, high |-> price, low |-> price, close |-> price,
          volume |-> vol, last_update_ms |-> ts_ms]
    ELSE LET h1 == IF price > old.high THEN Put(old, "high", price) ELSE old
             h2 == IF price < old.low THEN Put(h1, "low", price) ELSE h1
             h3 == Put(h2, "close", price)
             h4 == Put(h3, "volume",
                       (IF "volume" \in DOMAIN h3 THEN h3.volume ELSE 0) + vol)
         IN Put(h4, "last_update_ms", ts_ms)

\* EXPIRE is called in the creating branch of the script only.
LuaUpsertExpire(old_expire_at, exists, ttl_sec) ==
    IF ~exists THEN now_ms + ttl_sec * 1000 ELSE old_expire_at

\* CandleRedisStore.upsert_trade
upsert_trade(symbol, minute_ts_ms, price, volume, ts_ms, ttl_sec) ==
    LET key == candle_key(symbol, minute_ts_ms)
        exists == key \in DOMAIN kv
        old == IF exists THEN kv[key] ELSE [fields |-> <<>>, expire_at |-> 0]
    IN IF LuaUpsertRaises(key)
       THEN UNCHANGED <<kv, received>>
       ELSE /\ kv' = Put(kv, key,
                    [fields |-> LuaUpsertFields(old.fields, exists, price, volume, ts_ms),
                     expire_at |-> LuaUpsertExpire(old.expire_at, exists, ttl_sec)])
            /\ received' = Put(received, key,
                          IF exists /\ key \in DOMAIN received
                          THEN Apply(received[key], price, volume, ts_ms)
                          ELSE First(price, volume, ts_ms))

\* CandleRedisStore.delete_key
delete_key(key) ==
    /\ kv' = Remove(kv, key)
    /\ received' = Remove(received, key)

----------------------------------------------------------------------------
(* candles_1m *)

\* An INSERT without the ON CONFLICT clause (and without the primary key).
insert_candle(rows, row) == rows \cup {row}

\* CandleSQL.upsert_candle: INSERT ... ON CONFLICT(symbol, minute_ts_ms) DO UPDATE
upsert_candle(rows, row) ==
    {r \in rows : ~(r.symbol = row.symbol /\ r.minute_ts_ms = row.minute_ts_ms)}
        \cup {row}

----------------------------------------------------------------------------
(* quote-normalizer /pubsub *)

\* handle_pubsub for a decoded message: only event_type "trade" is applied.
qn_handle_pubsub(msg) ==
    /\ trades_left > 0
    /\ trades_left' = trades_left - 1
    /\ IF msg.event_type # "trade"
       THEN UNCHANGED <<kv, received>>
       ELSE upsert_trade(msg.symbol, minute_bucket_ms(msg.ts_ms), msg.price,
                         msg.volume, msg.ts_ms, candle_ttl_sec)
    /\ UNCHANGED <<now_ms, clock_left, idle_left, slots, table, bus, pc, fl>>
    /\ UNCHANGED not_qn_vars

Trade(symbol, ts_ms, price, volume) ==
    [event_type |-> "trade", symbol |-> symbol, ts_ms |-> ts_ms,
     price |-> price, volume |-> volume]

\* The pool of trade events the bus may deliver, any number of times and in any
\* order: both prices at each timestamp, with and without volume.
TradeMessages ==
    UNION {{Trade(s, MINUTE_MS \div 4, 1, 1), Trade(s, MINUTE_MS \div 4, 2, 0),
            Trade(s, (3 * MINUTE_MS) \div 4, 1, 0), Trade(s, (3 * MINUTE_MS) \div 4, 2, 1),
            Trade(s, MINUTE_MS, 1, 1), Trade(s, MINUTE_MS, 2, 0)} : s \in Symbols}
Heartbeat == [event_type |-> "heartbeat"]

PubsubDelivery ==
    \/ \E msg \in TradeMessages : qn_handle_pubsub(msg)
    \/ qn_handle_pubsub(Heartbeat)

\* Trades of provider symbols: a stock, and two exchange-prefixed symbols
\* ("BINANCE:BTCUSDT", "OANDA:EUR_USD"), which Instrument.symbol (a str)
\* accepts as they are.
ExchangeSymbols == {<<"AAPL">>, <<"BINANCE", "BTCUSDT">>, <<"OANDA", "EUR_USD">>}
ExchangeTrades ==
    {Trade(s, t, 1, 1) : s \in ExchangeSymbols, t \in {MINUTE_MS \div 4, MINUTE_MS}}
ExchangeDelivery == \E msg \in ExchangeTrades : qn_handle_pubsub(msg)

\* A push request as the bus delivers it: a body that is JSON or not, its
\* message.data ("" when absent or empty, text that is not base64, base64 of
\* text that is not JSON, or base64 of a JSON object), and the object.
PushRequest(json, data, msg) == [json |-> json, data |-> data, msg |-> msg]
Push(msg) == PushRequest(TRUE, "json", msg)
NoRequest == PushRequest(FALSE, "", <<>>)
\* A trade as the market-streamer publishes it when the provider's item has no
\* "t": ts_ms = int(item.get("t", 0)).
TradeWithoutTime == Trade(<<"AAPL">>, 0, 1, 1)
\* A trade event that lacks its price, and one that lacks its volume.
TradeWithoutPrice ==
    [event_type |-> "trade", symbol |-> <<"AAPL">>, ts_ms |-> MINUTE_MS \div 4,
     volume |-> 1]
TradeWithoutVolume ==
    [event_type |-> "trade", symbol |-> <<"AAPL">>, ts_ms |-> MINUTE_MS \div 4,
     price |-> 2]
PushRequests ==
    { PushRequest(FALSE, "", <<>>),
      PushRequest(TRUE, "", <<>>),
      PushRequest(TRUE, "not_base64", <<>>),
      PushRequest(TRUE, "not_json", <<>>),
      Push(<<>>),
      Push(Heartbeat),
      Push(TradeWithoutPrice),
      Push(TradeWithoutVolume),
      Push(TradeWithoutTime),
      Push(Trade(<<"AAPL">>, MINUTE_MS \div 4, 1, 1)),
      Push(Trade(<<"AAPL">>, (3 * MINUTE_MS) \div 4, 2, 1)) }

\* QuoteTradeEvent.model_validate: the required members are there; volume
\* defaults to 0.
trade_valid(msg) == {"symbol", "ts_ms", "price"} \subseteq DOMAIN msg
trade_volume(msg) == IF "volume" \in DOMAIN msg THEN msg.volume ELSE 0

\* handle_pubsub, from the request to the response: 400 for a body that is not
\* JSON, 204 for no data, an empty object, another event type or an invalid
\* trade; pubsub_decode and upsert_trade are not guarded, their exceptions
\* give 500.
handle_pubsub(req) ==
    /\ trades_left > 0
    /\ trades_left' = trades_left - 1
    /\ in_req' = req
    /\ IF ~req.json
       THEN in_status' = 400 /\ UNCHANGED <<kv, received>>
       ELSE IF req.data = ""
       THEN in_status' = 204 /\ UNCHANGED <<kv, received>>
       ELSE IF req.data # "json"
       THEN in_status' = 500 /\ UNCHANGED <<kv, received>>
       ELSE IF req.msg = <<>>
       THEN in_status' = 204 /\ UNCHANGED <<kv, received>>
       ELSE IF req.msg.event_type # "trade"
       THEN in_status' = 204 /\ UNCHANGED <<kv, received>>
       ELSE IF ~trade_valid(req.msg)
       THEN in_status' = 204 /\ UNCHANGED <<kv, received>>
       ELSE /\ upsert_trade(req.msg.symbol, minute_bucket_ms(req.msg.ts_ms),
                            req.msg.price, trade_volume(req.msg), req.msg.ts_ms,
                            candle_ttl_sec)
            /\ in_status' =
                 IF LuaUpsertRaises(candle_key(req.msg.symbol,
                                               minute_bucket_ms(req.msg.ts_ms)))
                 THEN 500 ELSE 204
    /\ UNCHANGED <<now_ms, clock_left, idle_left, slots, table, bus, pc, fl>>
    /\ UNCHANGED not_in_vars

PushDelivery == \E req \in PushRequests : handle_pubsub(req)

----------------------------------------------------------------------------
(* Clock; Redis drops a key when its expiry time is reached *)

Tick ==
    /\ clock_left > 0
    /\ \E d \in (IF idle_left > 0 THEN {ClockStepMs, IdleMs} ELSE {ClockStepMs}) :
         /\ now_ms' = now_ms + d
         /\ clock_left' = clock_left - 1
         /\ idle_left' = IF d = IdleMs THEN idle_left - 1 ELSE idle_left
         /\ LET live == {k \in DOMAIN kv : kv[k].expire_at > now_ms + d}
            IN /\ kv' = [k \in live |-> kv[k]]
               /\ received' = [k \in live \cap DOMAIN received |-> received[k]]
    /\ UNCHANGED <<slots, trades_left, table, bus, pc, fl>>
    /\ UNCHANGED not_qn_vars

----------------------------------------------------------------------------
(* quote-normalizer /flush: one step per remote call *)

NoLocals ==
    [current_minute |-> 0, finalize_before_ms |-> 0, todo |-> {}, key |-> <<>>,
     row |-> <<>>, flushed |-> 0, errors |-> 0]

\* lines 94-101: read the clock, SCAN the candle keys
FlushStart(p) ==
    /\ pc[p] = "idle"
    /\ p <= slots
    /\ \A q \in FlushProcs : q < p => pc[q] # "idle"   \* slots are taken in order
    /\ LET current_minute == minute_bucket_ms(now_ms)
       IN fl' = [fl EXCEPT ![p] =
                   [NoLocals EXCEPT
                      !.current_minute = current_minute,
                      !.finalize_before_ms = current_minute - finalize_before_sec * 1000,
                      !.todo = DOMAIN kv]]
    /\ pc' = [pc EXCEPT ![p] = "loop"]
    /\ UNCHANGED <<now_ms, clock_left, idle_left, slots, trades_left, kv, received, table, bus>>
    /\ UNCHANGED not_qn_vars

\* A run that takes every candle for stale.
last_update_ms_zero(data) == 0
\* int(float(data.get("last_update_ms", "0")))
last_update_ms(data) ==
    IF "last_update_ms" \in DOMAIN data THEN data.last_update_ms ELSE 0

\* A field whose text is not a number ("abc") stands in the model as this
\* value; the script writes no negative number.
NotANumber == -1
\* int(float(...)) raises ValueError on text that is not a number; nothing in
\* handle_flush catches it at line 120.
last_update_ms_raises(data) ==
    "last_update_ms" \in DOMAIN data /\ data.last_update_ms = NotANumber

\* float(data[f]) for the five OHLCV fields succeeds
WellFormed(data) ==
    /\ {"open", "high", "low", "close", "volume"} \subseteq DOMAIN data
    /\ \A f \in {"open", "high", "low", "close", "volume"} :
         data[f] \in Int /\ data[f] # NotANumber

\* The locals key and row are dead once the loop body is left (they are assigned
\* again before the next read); the model clears them there.
\* lines 101-147: next key, HGETALL, the skip tests, float parsing.
\* finalized_at (the wall clock at line 135) travels with the row and the event
\* and is read by nothing; the model leaves it out.
FlushGet(p) ==
    /\ pc[p] = "loop"
    /\ \E key \in fl[p].todo :
         LET rest == [fl[p] EXCEPT !.todo = @ \ {key}, !.key = <<>>, !.row = <<>>]
             data == IF key \in DOMAIN kv THEN kv[key].fields ELSE <<>>
         IN IF key \notin DOMAIN kv                          \* if not data: continue
            THEN fl' = [fl EXCEPT ![p] = rest] /\ pc' = pc
            ELSE IF ~IsInt(key[Len(key)])                     \* except: continue
            THEN fl' = [fl EXCEPT ![p] = rest] /\ pc' = pc
            ELSE IF key_minute(key) >= fl[p].current_minute   \* current minute
            THEN fl' = [fl EXCEPT ![p] = rest] /\ pc' = pc
            ELSE IF last_update_ms_raises(data)               \* 500, the run ends
            THEN fl' = [fl EXCEPT ![p] = NoLocals] /\ pc' = [pc EXCEPT ![p] = "idle"]
            ELSE IF last_update_ms(data) > fl[p].finalize_before_ms
            THEN fl' = [fl EXCEPT ![p] = rest] /\ pc' = pc
            ELSE IF ~WellFormed(data)
            THEN /\ fl' = [fl EXCEPT ![p] = [rest EXCEPT !.key = key]]
                 /\ pc' = [pc EXCEPT ![p] = "delete_invalid"]
            ELSE /\ fl' = [fl EXCEPT ![p] =
                             [rest EXCEPT
                                !.key = key,
                                !.row = [symbol |-> key_symbol(key),
                                         minute_ts_ms |-> key_minute(key),
                                         open |-> data.open, high |-> data.high,
                                         low |-> data.low, close |-> data.close,
                                         volume |-> data.volume]]]
                 /\ pc' = [pc EXCEPT ![p] = "upsert"]
    /\ UNCHANGED <<now_ms, clock_left, idle_left, slots, trades_left, kv, received, table, bus>>
    /\ UNCHANGED not_qn_vars

\* lines 150-156: sql.upsert_candle returns
FlushUpsertOk(p) ==
    /\ pc[p] = "upsert"
    /\ table' = upsert_candle(table, fl[p].row)
    /\ pc' = [pc EXCEPT ![p] = "publish"]
    /\ UNCHANGED <<now_ms, clock_left, idle_left, slots, trades_left, kv, received, bus, fl>>
    /\ UNCHANGED not_qn_vars

\* A handler that gives the candle up when the upsert fails, deleting its key.
FlushUpsertFailDrops(p) ==
    /\ pc[p] = "upsert"
    /\ delete_key(fl[p].key)
    /\ fl' = [fl EXCEPT ![p].errors = @ + 1, ![p].key = <<>>, ![p].row = <<>>]
    /\ pc' = [pc EXCEPT ![p] = "loop"]
    /\ UNCHANGED <<now_ms, clock_left, idle_left, slots, trades_left, table, bus>>
    /\ UNCHANGED not_qn_vars

\* A handler that logs the failed upsert and goes on to publish.
FlushUpsertFailGoesOn(p) ==
    /\ pc[p] = "upsert"
    /\ fl' = [fl EXCEPT ![p].errors = @ + 1]
    /\ pc' = [pc EXCEPT ![p] = "publish"]
    /\ UNCHANGED <<now_ms, clock_left, idle_left, slots, trades_left, kv, received, table, bus>>
    /\ UNCHANGED not_qn_vars

\* lines 157-160: sql.upsert_candle raises
FlushUpsertFail(p) ==
    /\ pc[p] = "upsert"
    /\ fl' = [fl EXCEPT ![p].errors = @ + 1, ![p].key = <<>>, ![p].row = <<>>]
    /\ pc' = [pc EXCEPT ![p] = "loop"]
    /\ UNCHANGED <<now_ms, clock_left, idle_left, slots, trades_left, kv, received, table, bus>>
    /\ UNCHANGED not_qn_vars

\* Candle1mEvent(...).model_dump(mode="json")
candle_event(row) == [event_type |-> "candle_1m"] @@ row

\* lines 163-164: pub.publish_json returns
FlushPublishOk(p) ==
    /\ pc[p] = "publish"
    /\ bus' = Append(bus, candle_event(fl[p].row))
    /\ pc' = [pc EXCEPT ![p] = "delete"]
    /\ UNCHANGED <<now_ms, clock_left, idle_left, slots, trades_left, kv, received, table, fl>>
    /\ UNCHANGED not_qn_vars

\* A handler that leaves the key in place when the publish fails.
FlushPublishFailKeeps(p) ==
    /\ pc[p] = "publish"
    /\ fl' = [fl EXCEPT ![p].errors = @ + 1, ![p].key = <<>>, ![p].row = <<>>]
    /\ pc' = [pc EXCEPT ![p] = "loop"]
    /\ UNCHANGED <<now_ms, clock_left, idle_left, slots, trades_left, kv, received, table, bus>>
    /\ UNCHANGED not_qn_vars

\* lines 165-166: pub.publish_json raises; logged only
FlushPublishFail(p) ==
    /\ pc[p] = "publish"
    /\ pc' = [pc EXCEPT ![p] = "delete"]
    /\ UNCHANGED <<now_ms, clock_left, idle_left, slots, trades_left, kv, received, table, bus, fl>>
    /\ UNCHANGED not_qn_vars

\* store.delete_key(key): lines 168-170 after the publish (flushed += 1), and
\* lines 131-133 for invalid candle data (errors += 1)
FlushDelete(p) ==
    /\ pc[p] \in {"delete", "delete_invalid"}
    /\ delete_key(fl[p].key)
    /\ fl' = [fl EXCEPT ![p] =
                [@ EXCEPT !.flushed = IF pc[p] = "delete" THEN @ + 1 ELSE @,
                          !.errors = IF pc[p] = "delete_invalid" THEN @ + 1 ELSE @,
                          !.key = <<>>, !.row = <<>>]]
    /\ pc' = [pc EXCEPT ![p] = "loop"]
    /\ UNCHANGED <<now_ms, clock_left, idle_left, slots, trades_left, table, bus>>
    /\ UNCHANGED not_qn_vars

\* lines 172-173: the scan is exhausted, the response is sent
FlushDone(p) ==
    /\ pc[p] = "loop"
    /\ fl[p].todo = {}
    /\ fl' = [fl EXCEPT ![p] = NoLocals]
    /\ pc' = [pc EXCEPT ![p] = "idle"]
    /\ UNCHANGED <<now_ms, clock_left, idle_left, slots, trades_left, kv, received, table, bus>>
    /\ UNCHANGED not_qn_vars

handle_flush(p) ==
    \/ FlushStart(p)
    \/ FlushGet(p)
    \/ FlushUpsertOk(p)
    \/ FlushUpsertFail(p)
    \/ FlushPublishOk(p)
    \/ FlushPublishFail(p)
    \/ FlushDelete(p)
    \/ FlushDone(p)

----------------------------------------------------------------------------
(* Part II: event-fusion-engine, FusionStore *)

(* Bounds *)

MaxMsgs == 3
MaxFuClock == 5

(* Settings (config.py defaults) and constants of the code *)

LTRIM_STOP == 50              \* pipe.ltrim(key, 0, 50)
LRANGE_STOP == 50             \* self.r.lrange(key, 0, 50)
MAX_ITEMS == 50               \* docstring of add_news/add_social: "max 50 items"
ttl_sec == 7200               \* add_news/add_social default
news_lookback_sec == 1800
social_lookback_sec == 3600
SYMBOLS_PER_MESSAGE == 10     \* for sym in symbols[:10]

(* Inputs *)

Kinds == {"news", "social"}
FuSymbols == {"AAPL"}
\* Symbols extracted from a message: none, or the watched one.
MsgSymbols == {<<>>, <<"AAPL">>}
\* The clock moves by half an hour.
FuStepSec == news_lookback_sec
\* Concurrent /pubsub requests (service instances share Redis).
FuProcs == {1, 2}
\* Items a symbol's news list holds at the start: none, or LTRIM_STOP items of
\* a busy second.
Backlogs == {0, LTRIM_STOP}
\* A key without TTL (TTL command answers -1).
NO_TTL == -1

\* f"fusion:news:{symbol}", f"fusion:social:{symbol}"
news_key(symbol) == <<"fusion", "news", symbol>>
social_key(symbol) == <<"fusion", "social", symbol>>

\* orjson.dumps(item).decode("utf-8") and orjson.loads(s): a payload is text,
\* not a dict; loads gives back the dict that was dumped.
dumps(item) == [json |-> item]
loads(s) == s.json

\* Redis list commands with non-negative indices, on the list's elements.
lpush(items, element) == <<element>> \o items
ltrim(items, start, stop) == SubSeq(items, start + 1, Min(stop + 1, Len(items)))
lrange(items, start, stop) == SubSeq(items, start + 1, Min(stop + 1, Len(items)))
\* A pipeline without the EXPIRE: the key keeps the TTL it had.
expire_never(old_expire_at, ttl) == old_expire_at
\* EXPIRE key ttl: the key's time of death, counted from now.
expire(old_expire_at, ttl) == now_unix + ttl

\* pipe.lpush; pipe.ltrim(key, 0, 50); pipe.expire(key, ttl_sec);
\* pipe.execute(): redis-py pipelines are MULTI/EXEC transactions by default,
\* the three commands run as one step. An element of a list is the payload and
\* seq, the history number of the append that put it there; appended_at is the
\* history of the last append's time.
pipeline_execute(key, payload, ttl) ==
    LET exists == key \in DOMAIN lists
        e0 == IF exists THEN lists[key]
              ELSE [items |-> <<>>, expire_at |-> NO_TTL, appended_at |-> now_unix]
        seq == IF exists THEN Head(e0.items).seq + 1 ELSE 1
        e1 == [e0 EXCEPT !.items = lpush(@, [payload |-> payload, seq |-> seq])]
        e2 == [e1 EXCEPT !.items = ltrim(@, 0, LTRIM_STOP)]
        e3 == [e2 EXCEPT !.expire_at = expire(@, ttl), !.appended_at = now_unix]
    IN  Put(lists, key, e3)

add_news(symbol, news, ttl) == pipeline_execute(news_key(symbol), dumps(news), ttl)
add_social(symbol, social, ttl) ==
    pipeline_execute(social_key(symbol), dumps(social), ttl)

\* A read that forgets the lookback: every stored item is returned.
get_recent_unfiltered(key, lookback_sec) ==
    LET stored == IF key \in DOMAIN lists THEN lists[key].items ELSE <<>>
        raw == lrange(stored, 0, LRANGE_STOP)
    IN  [i \in DOMAIN raw |-> loads(raw[i].payload)]

\* get_recent_news / get_recent_social: lrange(key, 0, 50), then keep the items
\* with a timestamp inside the lookback, in list order.
get_recent(key, lookback_sec) ==
    LET stored == IF key \in DOMAIN lists THEN lists[key].items ELSE <<>>
        raw == lrange(stored, 0, LRANGE_STOP)
        parsed == [i \in DOMAIN raw |-> loads(raw[i].payload)]
        Keep(item) == item.ts_unix # 0 /\ (now_unix - item.ts_unix) <= lookback_sec
    IN  SelectSeq(parsed, Keep)
get_recent_news(symbol, lookback_sec) == get_recent(news_key(symbol), lookback_sec)
get_recent_social(symbol, lookback_sec) ==
    get_recent(social_key(symbol), lookback_sec)

----------------------------------------------------------------------------
(* event-fusion-engine: handle_pubsub, news and social ingest *)

FuNoLocals == [kind |-> "", symbols |-> <<>>, item |-> [ts_unix |-> 0]]

\* Decode, extract the symbols, return 204 when there is none, else build the
\* item with ts_unix = int(time.time()).
FuIngest(p) ==
    /\ fpc[p] = "idle"
    /\ msgs_left > 0
    /\ p <= fu_slots
    /\ \A q \in FuProcs : q < p => fpc[q] # "idle"
    /\ msgs_left' = msgs_left - 1
    /\ \E kind \in Kinds, symbols \in MsgSymbols :
         IF symbols = <<>>
         THEN UNCHANGED <<fpc, fh>>
         ELSE /\ fpc' = [fpc EXCEPT ![p] = "store"]
              /\ fh' = [fh EXCEPT ![p] =
                          [kind |-> kind,
                           symbols |-> SubSeq(symbols, 1,
                                              Min(SYMBOLS_PER_MESSAGE, Len(symbols))),
                           item |-> [ts_unix |-> now_unix]]]
    /\ UNCHANGED <<now_unix, fu_clock_left, lists, candles_left, latest, fbus, fc, fu_slots>>
    /\ UNCHANGED not_fu_vars

\* One turn of "for sym in symbols[:10]: store.add_news(sym, news_item)" (or
\* add_social); after the last one the handler returns 204.
FuStore(p) ==
    /\ fpc[p] = "store"
    /\ LET sym == Head(fh[p].symbols)
           rest == Tail(fh[p].symbols)
       IN  /\ lists' = IF fh[p].kind = "news"
                       THEN add_news(sym, fh[p].item, ttl_sec)
                       ELSE add_social(sym, fh[p].item, ttl_sec)
           /\ IF rest = <<>>
              THEN /\ fpc' = [fpc EXCEPT ![p] = "idle"]
                   /\ fh' = [fh EXCEPT ![p] = FuNoLocals]
              ELSE /\ fh' = [fh EXCEPT ![p].symbols = rest]
                   /\ UNCHANGED fpc
    /\ UNCHANGED <<now_unix, fu_clock_left, msgs_left, candles_left, latest, fbus, fc, fu_slots>>
    /\ UNCHANGED not_fu_vars

\* The Redis call of add_news / add_social fails (connection refused, timeout):
\* redis-py raises, nothing between the store and aiohttp catches it.
FuStoreFail(p) ==
    /\ fpc[p] = "store"
    /\ fpc' = [fpc EXCEPT ![p] = "raised"]
    /\ UNCHANGED <<now_unix, fu_clock_left, msgs_left, lists, fh, candles_left, latest, fbus, fc, fu_slots>>
    /\ UNCHANGED not_fu_vars

----------------------------------------------------------------------------
(* event-fusion-engine: handle_pubsub, candle_1m branch *)

\* Exact fractions stand for the floats of a percentage; den > 0.
Rat(n, d) == [num |-> n, den |-> d]
Abs(n) == IF n < 0 THEN -n ELSE n
RatAbs(x) == Rat(Abs(x.num), x.den)
RatLess(x, y) == x.num * y.den < y.num * x.den
\* int(x) of a fraction x >= 0: truncation.
trunc(x) == x.num \div x.den
\* round(x): to the nearest integer, a tie to the even one.
round_half_even(x) ==
    LET q == x.num \div x.den
        r == x.num % x.den
    IN  IF 2 * r > x.den \/ (2 * r = x.den /\ q % 2 = 1) THEN q + 1 ELSE q
\* round(pct, ndigits = 3), in thousandths.
round(x, thousand) ==
    LET a == round_half_even(Rat(Abs(x.num) * thousand, x.den))
    IN  Rat(IF x.num < 0 THEN -a ELSE a, thousand)

\* A joiner with the older, lower threshold.
JOIN_THRESHOLD_LOWER == Rat(20, 100)
JOIN_THRESHOLD == Rat(25, 100)        \* if abs(pct) < 0.25
BASE_PER_PCT == 15                    \* abs(pct) * 15
SEVERITY_MAX == 100
NEWS_BOOST_MAX == 50
NEWS_BOOST_EACH == 8
SOCIAL_BOOST_MAX == 30
SOCIAL_BOOST_EACH == 5
LATEST_CLOSE_TTL_SEC == 21600         \* set_latest_close default
THOUSAND == 1000                      \* round(pct, 3)

\* candle_change_pct(open_, close)
candle_change_pct(open_, close) ==
    IF open_ <= 0 THEN Rat(0, 1) ELSE Rat((close - open_) * 100, open_)

\* A compute_severity that forgets the cap on the sum.
compute_severity_uncapped(pct, news_count, social_count) ==
    LET a == RatAbs(pct)
        base_severity == Min(SEVERITY_MAX, trunc(Rat(a.num * BASE_PER_PCT, a.den)))
        news_boost == Min(NEWS_BOOST_MAX, news_count * NEWS_BOOST_EACH)
        social_boost == Min(SOCIAL_BOOST_MAX, social_count * SOCIAL_BOOST_EACH)
    IN  base_severity + news_boost + social_boost

\* compute_severity(pct, news_count, social_count)
compute_severity(pct, news_count, social_count) ==
    LET a == RatAbs(pct)
        base_severity == Min(SEVERITY_MAX, trunc(Rat(a.num * BASE_PER_PCT, a.den)))
        news_boost == Min(NEWS_BOOST_MAX, news_count * NEWS_BOOST_EACH)
        social_boost == Min(SOCIAL_BOOST_MAX, social_count * SOCIAL_BOOST_EACH)
    IN  Min(SEVERITY_MAX, base_severity + news_boost + social_boost)

\* f"fusion:latest_close:{symbol}"
latest_close_key(symbol) == <<"fusion", "latest_close", symbol>>
\* set_latest_close: HSET key close str(close) minute_ts_ms str(minute_ts_ms),
\* then EXPIRE key ttl_sec.
set_latest_close(symbol, close, minute_ts_ms, ttl) ==
    Put(latest, latest_close_key(symbol),
        [close |-> ToString(close), minute_ts_ms |-> ToString(minute_ts_ms),
         expire_at |-> now_unix + ttl])

\* Decoded candle_1m messages: a move of exactly the join threshold up and
\* down, a smaller move, a large move, and a candle with open = 0.
Candle(symbol, minute_ts_ms, open, close) ==
    [event_type |-> "candle_1m", symbol |-> symbol, minute_ts_ms |-> minute_ts_ms,
     open |-> open, high |-> Max(open, close), low |-> Min(open, close),
     close |-> close, volume |-> 1]
CandleMsgs ==
    {Candle(sym, 0, 400, 401) : sym \in FuSymbols} \cup
    {Candle(sym, MINUTE_MS, 400, 399) : sym \in FuSymbols} \cup
    {Candle(sym, 0, 1000, 1002) : sym \in FuSymbols} \cup
    {Candle(sym, MINUTE_MS, 100, 103) : sym \in FuSymbols} \cup
    {Candle(sym, 0, 0, 5) : sym \in FuSymbols}

NoCandle == [candle |-> <<>>, pct |-> Rat(0, 1), recent_news |-> <<>>, recent_social |-> <<>>]

\* decoded.get(...) of the candle's fields.
FuCandleIngest(p) ==
    /\ fpc[p] = "idle"
    /\ candles_left > 0
    /\ p <= fu_slots
    /\ \A q \in FuProcs : q < p => fpc[q] # "idle"
    /\ candles_left' = candles_left - 1
    /\ \E msg \in CandleMsgs :
         fc' = [fc EXCEPT ![p] = [NoCandle EXCEPT !.candle = msg]]
    /\ fpc' = [fpc EXCEPT ![p] = "set_close"]
    /\ UNCHANGED <<now_unix, fu_clock_left, msgs_left, lists, fh, latest, fbus, fu_slots>>
    /\ UNCHANGED not_fu_vars

\* store.set_latest_close, then pct and the threshold: a smaller move is
\* answered 204 with nothing published.
FuCandleSetClose(p) ==
    /\ fpc[p] = "set_close"
    /\ LET c == fc[p].candle
           pct == candle_change_pct(c.open, c.close)
       IN  /\ latest' = set_latest_close(c.symbol, c.close, c.minute_ts_ms,
                                         LATEST_CLOSE_TTL_SEC)
           /\ IF RatLess(RatAbs(pct), JOIN_THRESHOLD)
              THEN /\ fpc' = [fpc EXCEPT ![p] = "idle"]
                   /\ fc' = [fc EXCEPT ![p] = NoCandle]
              ELSE /\ fpc' = [fpc EXCEPT ![p] = "read_news"]
                   /\ fc' = [fc EXCEPT ![p].pct = pct]
    /\ UNCHANGED <<now_unix, fu_clock_left, msgs_left, lists, fh, candles_left, fbus, fu_slots>>
    /\ UNCHANGED not_fu_vars

\* recent_news = store.get_recent_news(symbol, settings.news_lookback_sec)
FuCandleReadNews(p) ==
    /\ fpc[p] = "read_news"
    /\ fc' = [fc EXCEPT ![p].recent_news =
                get_recent_news(fc[p].candle.symbol, news_lookback_sec)]
    /\ fpc' = [fpc EXCEPT ![p] = "read_social"]
    /\ UNCHANGED <<now_unix, fu_clock_left, msgs_left, lists, fh, candles_left, latest, fbus, fu_slots>>
    /\ UNCHANGED not_fu_vars

\* recent_social = store.get_recent_social(symbol, settings.social_lookback_sec)
FuCandleReadSocial(p) ==
    /\ fpc[p] = "read_social"
    /\ fc' = [fc EXCEPT ![p].recent_social =
                get_recent_social(fc[p].candle.symbol, social_lookback_sec)]
    /\ fpc' = [fpc EXCEPT ![p] = "publish"]
    /\ UNCHANGED <<now_unix, fu_clock_left, msgs_left, lists, fh, candles_left, latest, fbus, fu_slots>>
    /\ UNCHANGED not_fu_vars

\* A Redis call of the candle branch fails: redis-py raises out of the handler.
FuCandleKvFail(p) ==
    /\ fpc[p] \in {"set_close", "read_news", "read_social"}
    /\ fpc' = [fpc EXCEPT ![p] = "raised"]
    /\ UNCHANGED <<now_unix, fu_clock_left, msgs_left, lists, fh, candles_left, latest, fbus, fc, fu_slots>>
    /\ UNCHANGED not_fu_vars

HEADLINES_MAX == 5                    \* recent_news[:5]
TOP_SIGNALS_MAX == 3                  \* recent_social[:3]
EVIDENCE_MAX == 3                     \* recent_news[:3], recent_social[:3]

\* items[:n]
Prefix(items, n) == SubSeq(items, 1, Min(n, Len(items)))
\* d.get(field, "")
get_text(d, field) == IF field \in DOMAIN d THEN d[field] ELSE ""

\* The fused dict of handle_pubsub.
fused_event(c, pct, recent_news, recent_social) ==
    [schema_version |-> "1.3.0",
     event_type |-> "fused_event",
     source |-> "event-fusion-engine",
     symbol |-> c.symbol,
     minute_ts_ms |-> c.minute_ts_ms,
     price |-> [open |-> c.open, high |-> c.high, low |-> c.low, close |-> c.close,
                volume |-> c.volume, change_pct_1m |-> round(pct, THOUSAND)],
     severity |-> compute_severity(pct, Len(recent_news), Len(recent_social)),
     direction |-> IF pct.num > 0 THEN "positive" ELSE "negative",
     fusion_context |->
         [market |-> [change_pct |-> round(pct, THOUSAND)],
          news |-> [count |-> Len(recent_news),
                    headlines |->
                        [i \in DOMAIN Prefix(recent_news, HEADLINES_MAX) |->
                            get_text(recent_news[i], "headline")]],
          social |-> [count |-> Len(recent_social),
                      top_signals |->
                          [i \in DOMAIN Prefix(recent_social, TOP_SIGNALS_MAX) |->
                              get_text(recent_social[i], "title")]]],
     evidence |-> [news_items |-> Prefix(recent_news, EVIDENCE_MAX),
                   social_signals |-> Prefix(recent_social, EVIDENCE_MAX)],
     fused_at |-> now_unix]

\* pub.publish_json(settings.topic_events_normalized, fused); 204.
FuCandlePublishOk(p) ==
    /\ fpc[p] = "publish"
    /\ fbus' = Append(fbus, fused_event(fc[p].candle, fc[p].pct,
                                        fc[p].recent_news, fc[p].recent_social))
    /\ fpc' = [fpc EXCEPT ![p] = "idle"]
    /\ fc' = [fc EXCEPT ![p] = NoCandle]
    /\ UNCHANGED <<now_unix, fu_clock_left, msgs_left, lists, fh, candles_left, latest, fu_slots>>
    /\ UNCHANGED not_fu_vars

\* publish_json raises: nothing catches it either.
FuCandlePublishFail(p) ==
    /\ fpc[p] = "publish"
    /\ fpc' = [fpc EXCEPT ![p] = "raised"]
    /\ UNCHANGED <<now_unix, fu_clock_left, msgs_left, lists, fh, candles_left, latest, fbus, fc, fu_slots>>
    /\ UNCHANGED not_fu_vars

\* An exception left handle_pubsub: aiohttp answers 500 and the bus will
\* deliver the message again.
FuRaised(p) ==
    /\ fpc[p] = "raised"
    /\ fpc' = [fpc EXCEPT ![p] = "idle"]
    /\ fh' = [fh EXCEPT ![p] = FuNoLocals]
    /\ fc' = [fc EXCEPT ![p] = NoCandle]
    /\ UNCHANGED <<now_unix, fu_clock_left, msgs_left, lists, candles_left, latest, fbus, fu_slots>>
    /\ UNCHANGED not_fu_vars

fu_handle_pubsub(p) ==
    \/ FuIngest(p)
    \/ FuStore(p)
    \/ FuStoreFail(p)
    \/ FuRaised(p)

fu_handle_candle(p) ==
    \/ FuCandleIngest(p)
    \/ FuCandleSetClose(p)
    \/ FuCandleReadNews(p)
    \/ FuCandleReadSocial(p)
    \/ FuCandleKvFail(p)
    \/ FuCandlePublishOk(p)
    \/ FuCandlePublishFail(p)

\* Time passes; Redis removes the keys whose TTL has run out.
FuTick ==
    /\ fu_clock_left > 0
    /\ fu_clock_left' = fu_clock_left - 1
    /\ now_unix' = now_unix + FuStepSec
    /\ lists' = [k \in {x \in DOMAIN lists :
                          lists[x].expire_at = NO_TTL \/ lists[x].expire_at > now_unix'}
                   |-> lists[k]]
    /\ latest' = [k \in {x \in DOMAIN latest : latest[x].expire_at > now_unix'}
                    |-> latest[k]]
    /\ UNCHANGED <<msgs_left, fpc, fh, candles_left, fbus, fc, fu_slots>>
    /\ UNCHANGED not_fu_vars

----------------------------------------------------------------------------
(* Calls of compute_severity *)

MaxSevPctSteps == 64
MaxSevNews == 7
MaxSevSocial == 7

\* Percentages in steps of an eighth, both signs, up to where the price term
\* alone passes the cap.
SevPctDen == 8
SevPcts == {Rat(n, SevPctDen) : n \in (-MaxSevPctSteps)..MaxSevPctSteps}
NoArgs == [pct |-> Rat(0, 1), news_count |-> -1, social_count |-> -1]
NoResult == -1

SevCall ==
    /\ sev_args # NoArgs
    /\ sev_result = NoResult
    /\ sev_result' = compute_severity(sev_args.pct, sev_args.news_count,
                                      sev_args.social_count)
    /\ UNCHANGED <<sev_args, mb_t, mb_result, sx_text, sx_result>>
    /\ UNCHANGED not_fn_vars

----------------------------------------------------------------------------
(* Calls of minute_bucket_ms *)

MaxBucketT == 125000
NoT == -1

\* The call, and the call on its own result.
BucketCall ==
    /\ mb_t # NoT
    /\ mb_result = <<>>
    /\ mb_result' = <<minute_bucket_ms(mb_t), minute_bucket_ms(minute_bucket_ms(mb_t))>>
    /\ UNCHANGED <<sev_args, sev_result, mb_t, sx_text, sx_result>>
    /\ UNCHANGED not_fn_vars

----------------------------------------------------------------------------
(* Calls of extract_symbols_from_text (util_symbol.py) *)

MaxTextLen == 6

\* Characters of a headline: an upper-case letter, a lower-case letter, a
\* digit and a blank.
TextChars == {"A", "a", "1", " "}
\* str.upper(), character by character.
upper_char(c) == IF c = "a" THEN "A" ELSE c
upper(text) == [i \in DOMAIN text |-> upper_char(text[i])]
\* [A-Z], and \w (a letter, a digit or the underscore).
is_A_to_Z(c) == c = "A"
is_word_char(c) == c \in {"A", "a", "1"}
\* \b between positions i and i + 1 of text (0 and Len(text) are its ends).
word_boundary(text, i) ==
    (i >= 1 /\ is_word_char(text[i])) # (i < Len(text) /\ is_word_char(text[i + 1]))
TICKER_MIN == 1
TICKER_MAX == 5
\* TICKER_RE.findall(text), TICKER_RE = \b[A-Z]{1,5}\b: the matches from left
\* to right. A match starting at i ends at the largest j the pattern accepts;
\* the matches cannot overlap, a boundary lying between any two of them.
ticker_match(text, i, j) ==
    /\ j - i + 1 >= TICKER_MIN
    /\ j - i + 1 <= TICKER_MAX
    /\ word_boundary(text, i - 1)
    /\ \A k \in i..j : is_A_to_Z(text[k])
    /\ word_boundary(text, j)
findall(text) ==
    LET starts == {i \in DOMAIN text : \E j \in i..Len(text) : ticker_match(text, i, j)}
        end_of(i) == CHOOSE j \in i..Len(text) :
                        /\ ticker_match(text, i, j)
                        /\ \A k \in (j + 1)..Len(text) : ~ticker_match(text, i, k)
        IsStart(i) == i \in starts
        at == SelectSeq([i \in 1..Len(text) |-> i], IsStart)
    IN  [n \in DOMAIN at |-> SubSeq(text, at[n], end_of(at[n]))]
\* list(dict.fromkeys(items)): the first occurrence of each item, in order.
dedupe(items) ==
    LET idx == [i \in 1..Len(items) |-> i]
        IsFirst(i) == \A k \in 1..(i - 1) : items[k] # items[i]
        keep == SelectSeq(idx, IsFirst)
    IN  [n \in DOMAIN keep |-> items[keep[n]]]
\* extract_symbols_from_text(text)
extract_symbols_from_text(text) ==
    IF text = <<>> THEN <<>> ELSE dedupe(findall(upper(text)))

NotCalled == <<"not called">>

SymbolsCall ==
    /\ sx_result = NotCalled
    /\ sx_result' = extract_symbols_from_text(sx_text)
    /\ UNCHANGED <<sev_args, sev_result, mb_t, mb_result, sx_text>>
    /\ UNCHANGED not_fn_vars

----------------------------------------------------------------------------
(* Part III: alert-engine *)

(* Bounds *)
MaxAeMsgs == 2
MaxAeClock == 3

(* Settings (config.py defaults) and constants of the code *)
default_alert_cooldown_sec == 180
fused_alert_cooldown_sec == 300
min_fused_severity_to_alert == 35
\* A gate that lets any move of half a percent through.
min_change_pct_lower == Rat(5, 10)
\* MIN_CHANGE_PCT_TO_ALERT, 0.9
min_change_pct_to_alert == Rat(9, 10)

(* Inputs *)
AeProcs == {1, 2}
AeSymbols == {"AAPL", "NVDA"}
AlertKinds == {"candle_1m", "fused_event"}
Channels == {"telegram", "line"}
AeStepSec == fused_alert_cooldown_sec \div 3

\* What pubsub_decode returns, reduced to the fields the gate reads; valid says
\* whether model_validate accepts the message.
AeMsg(event_type, valid, symbol, open_, close, severity) ==
    [event_type |-> event_type, valid |-> valid, symbol |-> symbol,
     open |-> open_, close |-> close, severity |-> severity]
AeCandle(symbol, open_, close) == AeMsg("candle_1m", TRUE, symbol, open_, close, 0)
AeFused(symbol, severity) == AeMsg("fused_event", TRUE, symbol, 0, 0, severity)
\* Moves of exactly 0.9 %, 0.8 % and -1.5 %, a candle that opens at 0, a candle
\* without its required fields; severities at, below and above the minimum;
\* an event of another type.
AeMsgs ==
    { AeCandle("AAPL", 1000, 1009),
      AeCandle("AAPL", 1000, 1008),
      AeCandle("NVDA", 1000, 985),
      AeCandle("AAPL", 0, 5),
      AeMsg("candle_1m", FALSE, "AAPL", 1000, 1100, 0),
      AeFused("AAPL", 35),
      AeFused("AAPL", 34),
      AeFused("NVDA", 42),
      AeMsg("fused_event", FALSE, "AAPL", 0, 0, 90),
      AeMsg("news_item", TRUE, "AAPL", 0, 0, 0) }

\* Settings: a channel is configured when both of its credentials are set.
ChannelSettings == [telegram : BOOLEAN, line : BOOLEAN]

----------------------------------------------------------------------------
(* alert-engine: AlertState (redis_state.py) *)

cooldown_key(kind, symbol) == <<"alert", "cooldown", kind, symbol>>
\* A can_alert that never finds a mark.
can_alert_always(kind, symbol) == TRUE
\* can_alert: GET key is None.
can_alert(kind, symbol) == cooldown_key(kind, symbol) \notin DOMAIN cooldown
\* A set_cooldown that writes the mark of the candle kind whatever the kind.
set_cooldown_one_kind(kind, symbol, ttl) ==
    Put(cooldown, cooldown_key("candle_1m", symbol), [value |-> "1", expire_at |-> ae_now + ttl])
\* A set_cooldown that never writes.
set_cooldown_never(kind, symbol, ttl) == cooldown
\* set_cooldown: SET key "1" EX ttl_sec.
set_cooldown(kind, symbol, ttl) ==
    Put(cooldown, cooldown_key(kind, symbol), [value |-> "1", expire_at |-> ae_now + ttl])

----------------------------------------------------------------------------
(* alert-engine: handle_pubsub *)

AeNoMsg == AeMsg("", FALSE, "", 0, 0, 0)
AeNoLocals == [msg |-> AeNoMsg, telegram_sent |-> FALSE, line_sent |-> FALSE]

\* candle_change_pct of the alert-engine.
ae_candle_change_pct(c) ==
    IF c.open <= 0 THEN Rat(0, 1) ELSE Rat((c.close - c.open) * 100, c.open)

\* The part of handle_pubsub before the cooldown check: TRUE when the handler
\* returns 204 there (unknown event type, invalid message, below threshold).
returns_before_cooldown(m) ==
    IF m.event_type = "candle_1m"
    THEN \/ ~m.valid
         \/ RatLess(RatAbs(ae_candle_change_pct(m)), min_change_pct_to_alert)
    ELSE IF m.event_type = "fused_event"
    THEN \/ ~m.valid
         \/ m.severity < min_fused_severity_to_alert
    ELSE TRUE

cooldown_sec(kind) ==
    IF kind = "candle_1m" THEN default_alert_cooldown_sec ELSE fused_alert_cooldown_sec

\* A /pubsub request arrives; its body is decoded.
AeReceive(p) ==
    /\ p <= ae_slots
    /\ apc[p] = "idle"
    /\ ae_msgs_left > 0
    /\ ae_msgs_left' = ae_msgs_left - 1
    /\ \E m \in AeMsgs : ah' = [ah EXCEPT ![p] = [AeNoLocals EXCEPT !.msg = m]]
    /\ apc' = [apc EXCEPT ![p] = "gate"]
    /\ UNCHANGED <<ae_now, ae_clock_left, cooldown, calls, settings, ae_slots>>
    /\ UNCHANGED not_ae_vars

\* Validation, threshold and state.can_alert: the handler goes on to the
\* channels, or returns 204.
AeGate(p) ==
    /\ apc[p] = "gate"
    /\ LET m == ah[p].msg
       IN  IF returns_before_cooldown(m) \/ ~can_alert(m.event_type, m.symbol)
           THEN /\ apc' = [apc EXCEPT ![p] = "idle"]
                /\ ah' = [ah EXCEPT ![p] = AeNoLocals]
           ELSE /\ apc' = [apc EXCEPT ![p] = "telegram"]
                /\ UNCHANGED ah
    /\ UNCHANGED <<ae_now, ae_clock_left, ae_msgs_left, cooldown, calls, settings, ae_slots>>
    /\ UNCHANGED not_ae_vars

\* state.can_alert raises (Redis is unreachable): nothing catches it.
AeGateFail(p) ==
    /\ apc[p] = "gate"
    /\ ~returns_before_cooldown(ah[p].msg)
    /\ apc' = [apc EXCEPT ![p] = "raised"]
    /\ UNCHANGED <<ae_now, ae_clock_left, ae_msgs_left, cooldown, calls, ah, settings, ae_slots>>
    /\ UNCHANGED not_ae_vars

Called(channel, m) ==
    [calls EXCEPT ![<<channel, m.event_type, m.symbol>>] = @ + 1]

\* send_telegram returns True: the channel is configured and the remote
\* answered 200.
AeTelegramOk(p) ==
    /\ apc[p] = "telegram"
    /\ settings.telegram
    /\ calls' = Called("telegram", ah[p].msg)
    /\ ah' = [ah EXCEPT ![p].telegram_sent = TRUE]
    /\ apc' = [apc EXCEPT ![p] = "line"]
    /\ UNCHANGED <<ae_now, ae_clock_left, ae_msgs_left, cooldown, settings, ae_slots>>
    /\ UNCHANGED not_ae_vars

\* send_telegram returns False: not configured, another status, or an exception
\* that it caught.
AeTelegramFail(p) ==
    /\ apc[p] = "telegram"
    /\ calls' = Called("telegram", ah[p].msg)
    /\ ah' = [ah EXCEPT ![p].telegram_sent = FALSE]
    /\ apc' = [apc EXCEPT ![p] = "line"]
    /\ UNCHANGED <<ae_now, ae_clock_left, ae_msgs_left, cooldown, settings, ae_slots>>
    /\ UNCHANGED not_ae_vars

AeLineOk(p) ==
    /\ apc[p] = "line"
    /\ settings.line
    /\ calls' = Called("line", ah[p].msg)
    /\ ah' = [ah EXCEPT ![p].line_sent = TRUE]
    /\ apc' = [apc EXCEPT ![p] = "cooldown"]
    /\ UNCHANGED <<ae_now, ae_clock_left, ae_msgs_left, cooldown, settings, ae_slots>>
    /\ UNCHANGED not_ae_vars

AeLineFail(p) ==
    /\ apc[p] = "line"
    /\ calls' = Called("line", ah[p].msg)
    /\ ah' = [ah EXCEPT ![p].line_sent = FALSE]
    /\ apc' = [apc EXCEPT ![p] = "cooldown"]
    /\ UNCHANGED <<ae_now, ae_clock_left, ae_msgs_left, cooldown, settings, ae_slots>>
    /\ UNCHANGED not_ae_vars

\* if telegram_sent or line_sent: state.set_cooldown(...); return 204.
AeSetCooldown(p) ==
    /\ apc[p] = "cooldown"
    /\ LET m == ah[p].msg
       IN  cooldown' = IF ah[p].telegram_sent \/ ah[p].line_sent
                       THEN set_cooldown(m.event_type, m.symbol, cooldown_sec(m.event_type))
                       ELSE cooldown
    /\ apc' = [apc EXCEPT ![p] = "idle"]
    /\ ah' = [ah EXCEPT ![p] = AeNoLocals]
    /\ UNCHANGED <<ae_now, ae_clock_left, ae_msgs_left, calls, settings, ae_slots>>
    /\ UNCHANGED not_ae_vars

\* state.set_cooldown raises after a delivery: nothing catches it.
AeSetCooldownFail(p) ==
    /\ apc[p] = "cooldown"
    /\ ah[p].telegram_sent \/ ah[p].line_sent
    /\ apc' = [apc EXCEPT ![p] = "raised"]
    /\ UNCHANGED <<ae_now, ae_clock_left, ae_msgs_left, cooldown, calls, ah, settings, ae_slots>>
    /\ UNCHANGED not_ae_vars

\* aiohttp answers 500 for the exception.
AeRaised(p) ==
    /\ apc[p] = "raised"
    /\ apc' = [apc EXCEPT ![p] = "idle"]
    /\ ah' = [ah EXCEPT ![p] = AeNoLocals]
    /\ UNCHANGED <<ae_now, ae_clock_left, ae_msgs_left, cooldown, calls, settings, ae_slots>>
    /\ UNCHANGED not_ae_vars

ae_handle_pubsub(p) ==
    \/ AeReceive(p)
    \/ AeGate(p)
    \/ AeGateFail(p)
    \/ AeTelegramOk(p)
    \/ AeTelegramFail(p)
    \/ AeLineOk(p)
    \/ AeLineFail(p)
    \/ AeSetCooldown(p)
    \/ AeSetCooldownFail(p)
    \/ AeRaised(p)

\* Time passes; Redis removes the marks whose TTL has run out.
AeTick ==
    /\ ae_clock_left > 0
    /\ ae_clock_left' = ae_clock_left - 1
    /\ ae_now' = ae_now + AeStepSec
    /\ cooldown' = [k \in {x \in DOMAIN cooldown : cooldown[x].expire_at > ae_now'}
                      |-> cooldown[k]]
    /\ UNCHANGED <<ae_msgs_left, calls, apc, ah, settings, ae_slots>>
    /\ UNCHANGED not_ae_vars

NoCalls == [c \in Channels \X AlertKinds \X AeSymbols |-> 0]

----------------------------------------------------------------------------
(* From the candle to the alert: the joiner's topic feeds the alert-engine *)

\* The finalized candle of the example: NVDA, 1000 -> 1012, +1.2 %.
PipeCandles == {Candle("NVDA", 0, 1000, 1012)}

\* The candle_1m branch of the joiner receives the candle.
PipeCandleIngest(p) ==
    /\ fpc[p] = "idle"
    /\ candles_left > 0
    /\ p <= fu_slots
    /\ \A q \in FuProcs : q < p => fpc[q] # "idle"
    /\ candles_left' = candles_left - 1
    /\ \E msg \in PipeCandles :
         fc' = [fc EXCEPT ![p] = [NoCandle EXCEPT !.candle = msg]]
    /\ fpc' = [fpc EXCEPT ![p] = "set_close"]
    /\ UNCHANGED <<now_unix, fu_clock_left, msgs_left, lists, fh, latest, fbus, fu_slots>>
    /\ UNCHANGED not_fu_vars

\* FusedNewsItem: five members with defaults, other members ignored.
FusedNewsItem(n) ==
    [headline |-> get_text(n, "headline"), url |-> get_text(n, "url"),
     source |-> get_text(n, "source"), summary |-> get_text(n, "summary"),
     ts_unix |-> IF "ts_unix" \in DOMAIN n THEN n.ts_unix ELSE 0]
\* alert-engine, fused_event branch, lines 184-189: the members the handler
\* copies to the top level of the decoded dict before validation.
fused_remap(decoded) ==
    LET d1 == IF "price" \in DOMAIN decoded
              THEN Put(decoded, "price_change_pct_1m",
                       IF "change_pct_1m" \in DOMAIN decoded.price
                       THEN decoded.price.change_pct_1m ELSE 0)
              ELSE decoded
        d2 == IF "news_context" \in DOMAIN d1
              THEN Put(d1, "news_count_lookback",
                       IF "count_lookback" \in DOMAIN d1.news_context
                       THEN d1.news_context.count_lookback ELSE 0)
              ELSE d1
    IN  IF "news_items" \in DOMAIN d2
           /\ ("top_news" \notin DOMAIN d2 \/ d2.top_news = <<>>)
        THEN Put(d2, "top_news", d2.news_items)
        ELSE d2
\* FusedEvent.news_count_lookback and FusedEvent.top_news after model_validate:
\* the top-level members of those names, or the defaults 0 and [].
fused_news_count_lookback(decoded) ==
    LET d == fused_remap(decoded)
    IN  IF "news_count_lookback" \in DOMAIN d THEN d.news_count_lookback ELSE 0
fused_top_news(decoded) ==
    LET d == fused_remap(decoded)
    IN  IF "top_news" \in DOMAIN d
        THEN [i \in DOMAIN d.top_news |-> FusedNewsItem(d.top_news[i])]
        ELSE <<>>

\* A decode that loses the severity: the field's default, 0, is used.
ae_decode_fused_default(ev) ==
    AeMsg("fused_event",
          {"schema_version", "event_type", "source", "symbol", "minute_ts_ms"}
              \subseteq DOMAIN ev,
          ev.symbol, 0, 0, 0)
\* alert-engine, fused_event branch: FusedEvent.model_validate(decoded) needs
\* schema_version, event_type, source, symbol and minute_ts_ms and ignores the
\* members it does not know; severity is read from the event, the news count
\* and the top news from the remapped top-level members.
ae_decode_fused(ev) ==
    AeMsg("fused_event",
          {"schema_version", "event_type", "source", "symbol", "minute_ts_ms"}
              \subseteq DOMAIN ev,
          ev.symbol, 0, 0,
          IF "severity" \in DOMAIN ev THEN ev.severity ELSE 0)
    @@ [news_count_lookback |-> fused_news_count_lookback(ev),
        top_news |-> fused_top_news(ev)]

\* The topic pushes a published fused event to the alert-engine's /pubsub, at
\* least once.
PipeDeliver(p) ==
    /\ p <= ae_slots
    /\ apc[p] = "idle"
    /\ ae_msgs_left > 0
    /\ ae_msgs_left' = ae_msgs_left - 1
    /\ \E i \in DOMAIN fbus :
         ah' = [ah EXCEPT ![p] = [AeNoLocals EXCEPT !.msg = ae_decode_fused(fbus[i])]]
    /\ apc' = [apc EXCEPT ![p] = "gate"]
    /\ UNCHANGED <<ae_now, ae_clock_left, cooldown, calls, settings, ae_slots>>
    /\ UNCHANGED not_ae_vars

----------------------------------------------------------------------------
(* Part IV: trade-planner-worker, POST /analyze *)

(* Bounds *)
MaxAnalyze == 2

(* Settings (config.py defaults) and constants of the code *)
FETCH_LIMIT == 120
STRUCTURE_TAIL == 60
TREND_MIN_CANDLES == 20
PL_LRANGE_STOP == 20
pl_news_lookback_sec == 3600
pl_social_lookback_sec == 3600
TOP3 == 3

(* Inputs *)

\* int(time.time()) of the requests.
PlNow == 2 * pl_news_lookback_sec

\* str(body.get("symbol", "")).upper().strip() and
\* str(body.get("timeframe", "15m")).strip(), on the texts of the request pool.
upper_strip(s) ==
    CASE s = " nvda " -> "NVDA"
      [] s = "NVDA" -> "NVDA"
      [] s = "   " -> ""
      [] OTHER -> s
strip(s) ==
    CASE s = " 1h " -> "1h"
      [] OTHER -> s
\* Request bodies: not JSON, or an object with or without its two members.
NoBody == [json |-> FALSE, fields |-> <<>>]
Body(fields) == [json |-> TRUE, fields |-> fields]
PlBodies ==
    { NoBody,
      Body([timeframe |-> "1h"]),
      Body([symbol |-> "   "]),
      Body([symbol |-> " nvda "]),
      Body([symbol |-> "NVDA", timeframe |-> " 1h "]) }

\* Rows of candles_1m as the SELECT returns them, newest first: n candles
\* whose close moves by step per minute towards the newest close last.
PlCandle(close) == [low |-> close - 1, high |-> close + 1, close |-> close]
PlSeries(n, last, step) == [i \in 1..n |-> PlCandle(last - step * (i - 1))]
PlTables ==
    { PlSeries(0, 0, 0), PlSeries(1, 100, 0), PlSeries(20, 100, 0),
      PlSeries(20, 138, 2), PlSeries(20, 100, -2), PlSeries(20, 1019, 1) }

\* Evidence lists in Redis, newest first: items with a headline (or title) and
\* ts_unix; ts_unix 0 is an item without a timestamp.
PlItem(text, ts_unix) == [text |-> text, ts_unix |-> ts_unix]
PlLists ==
    { <<>>,
      <<PlItem("a", PlNow - 60)>>,
      <<PlItem("d", PlNow - 10), PlItem("", PlNow - 20), PlItem("c", 0),
        PlItem("b", PlNow - 30), PlItem("a", PlNow - 40), PlItem("old", PlNow - 3601)>> }

\* Documents an oracle can produce: the sections present, the three
\* probabilities, the action and the number of invalidation rules.
Sections ==
    {"snapshot", "catalysts", "market_structure", "scenarios", "suggested_action",
     "disclosures"}
Doc(sections, base, bull, bear, action, rules) ==
    [sections |-> sections, base |-> base, bull |-> bull, bear |-> bear,
     action |-> action, rules |-> rules, by |-> "oracle"]
EmptyDoc == Doc({}, 0, 0, 0, "", 0)
OracleDocs ==
    { Doc(Sections, 50, 30, 20, "BUY_ZONE", 2),
      Doc(Sections, 50, 30, 30, "WATCH", 2),
      Doc(Sections, 60, 30, 10, "BUY_ZONE", 0),
      Doc(Sections, 60, 30, 10, "REDUCE", 1),
      Doc(Sections \ {"scenarios"}, 0, 0, 0, "AVOID", 2),
      EmptyDoc }
\* What the HTTP call does: it raises (transport error, timeout), or answers
\* with a status and a body; a body is JSON or not, and holds the candidates'
\* texts, each JSON (a document) or not.
Reply(raises, status, body_json, candidates) ==
    [raises |-> raises, status |-> status, body_json |-> body_json,
     candidates |-> candidates]
Text(json, doc) == [json |-> json, doc |-> doc]
OracleReplies ==
    { Reply(TRUE, 0, FALSE, <<>>),
      Reply(FALSE, 500, TRUE, <<>>),
      Reply(FALSE, 429, FALSE, <<>>),
      Reply(FALSE, 200, FALSE, <<>>),
      Reply(FALSE, 200, TRUE, <<>>),
      Reply(FALSE, 200, TRUE, <<Text(FALSE, EmptyDoc)>>) }
    \cup {Reply(FALSE, 200, TRUE, <<Text(TRUE, d)>>) : d \in OracleDocs}

----------------------------------------------------------------------------
(* trade-planner-worker: pure functions *)

LastN(s, n) == SubSeq(s, Max(1, Len(s) - n + 1), Len(s))
FirstN(s, n) == SubSeq(s, 1, Min(n, Len(s)))
Reversed(s) == [i \in 1..Len(s) |-> s[Len(s) + 1 - i]]
\* min(x.field for x in s), max(x.field for x in s)
SeqMin(s, field) == CHOOSE x \in {s[i][field] : i \in DOMAIN s} :
                        \A j \in DOMAIN s : x <= s[j][field]
SeqMax(s, field) == CHOOSE x \in {s[i][field] : i \in DOMAIN s} :
                        \A j \in DOMAIN s : x >= s[j][field]

\* compute_support_resistance: ([min(lows)], [max(highs)]), or ([], []).
compute_support_resistance(candles) ==
    IF candles = <<>> THEN [support |-> <<>>, resistance |-> <<>>]
    ELSE [support |-> <<SeqMin(candles, "low")>>,
          resistance |-> <<SeqMax(candles, "high")>>]

\* trend_label: newest close against the oldest close times 1.01 / 0.99.
trend_label(candles) ==
    IF Len(candles) < TREND_MIN_CANDLES THEN "range"
    ELSE LET c0 == candles[1].close
             cN == candles[Len(candles)].close
         IN  IF cN * 100 > c0 * 101 THEN "up"
             ELSE IF cN * 100 < c0 * 99 THEN "down"
             ELSE "range"

\* volatility_regime: (max - min) / min of the first 60 closes against 0.03
\* and 0.01.
volatility_regime(candles) ==
    IF Len(candles) < TREND_MIN_CANDLES THEN "normal"
    ELSE LET closes == FirstN(candles, STRUCTURE_TAIL)
             mx == SeqMax(closes, "close")
             mn == SeqMin(closes, "close")
         IN  IF mn <= 0 THEN "normal"
             ELSE IF (mx - mn) * 100 > 3 * mn THEN "high"
             ELSE IF (mx - mn) * 100 < mn THEN "low"
             ELSE "normal"

\* CandleSQL.fetch_recent_1m: the newest rows, at most limit of them; an
\* exception of the database gives [].
fetch_recent_1m(rows, limit) == FirstN(rows, limit)

\* PlannerStore.get_recent_news / get_recent_social: LRANGE key 0 20, then the
\* items with a timestamp inside the lookback.
pl_get_recent(list, lookback_sec) ==
    SelectSeq(SubSeq(list, 1, Min(Len(list), PL_LRANGE_STOP + 1)),
              LAMBDA item : item.ts_unix # 0 /\ PlNow - item.ts_unix <= lookback_sec)

\* [n.get("headline", "") for n in news[:3] if n.get("headline")]
top3(items) ==
    LET first == FirstN(items, TOP3)
        kept == SelectSeq(first, LAMBDA item : item.text # "")
    IN  [i \in DOMAIN kept |-> kept[i].text]

\* build_fallback
build_fallback(symbol, timeframe, latest_price, trend, vol, support, resistance, news_top3, social_top3) ==
    [sections |-> Sections, base |-> 55, bull |-> 25, bear |-> 20,
     action |-> "WATCH", rules |-> 2, by |-> "fallback",
     snapshot |-> [symbol |-> symbol, timeframe |-> timeframe,
                   price |-> latest_price, volatility_regime |-> vol],
     catalysts |-> [news_top3 |-> news_top3, social_top3 |-> social_top3],
     market_structure |-> [trend |-> trend, support |-> support,
                           resistance |-> resistance],
     disclosures |-> 2]

\* A generate_json that hands back the empty document where the code raises.
generate_json_no_raise(reply) ==
    IF reply.raises \/ reply.status # 200 \/ ~reply.body_json
       \/ reply.candidates = <<>> \/ ~reply.candidates[1].json
    THEN [raised |-> FALSE, value |-> EmptyDoc]
    ELSE [raised |-> FALSE, value |-> reply.candidates[1].doc]

\* GeminiClient.generate_json: raises on a transport error, a status other
\* than 200 or a body or text that is not JSON; without candidates the text is
\* "{}"; else the parsed text of the first candidate.
generate_json(reply) ==
    IF reply.raises \/ reply.status # 200 \/ ~reply.body_json
    THEN [raised |-> TRUE, value |-> EmptyDoc]
    ELSE IF reply.candidates = <<>>
    THEN [raised |-> FALSE, value |-> EmptyDoc]
    ELSE IF ~reply.candidates[1].json
    THEN [raised |-> TRUE, value |-> EmptyDoc]
    ELSE [raised |-> FALSE, value |-> reply.candidates[1].doc]

----------------------------------------------------------------------------
(* trade-planner-worker: handle_analyze *)

NoResponse == [status |-> 0, ok |-> FALSE, result |-> EmptyDoc]
Response(status, ok, result) == [status |-> status, ok |-> ok, result |-> result]
PlNoLocals == [symbol |-> "", fallback |-> EmptyDoc, reply |-> Reply(FALSE, 0, FALSE, <<>>)]

body_get(body, name, default) ==
    IF name \in DOMAIN body.fields THEN body.fields[name] ELSE default

\* Lines 134-151: what handle_analyze derives from the candle rows and the
\* evidence lists, up to the fallback.
analyze_fallback(symbol, timeframe, rows, news_list, social_list) ==
    LET candles == Reversed(fetch_recent_1m(rows, FETCH_LIMIT))
        latest_price == IF candles # <<>> THEN candles[Len(candles)].close ELSE 0
        sr == compute_support_resistance(LastN(candles, STRUCTURE_TAIL))
        news == pl_get_recent(news_list, pl_news_lookback_sec)
        social == pl_get_recent(social_list, pl_social_lookback_sec)
    IN  build_fallback(symbol, timeframe, latest_price,
                       trend_label(LastN(candles, STRUCTURE_TAIL)),
                       volatility_regime(LastN(candles, STRUCTURE_TAIL)),
                       sr.support, sr.resistance, top3(news), top3(social))

\* A request arrives and runs up to its first await after the body: 400 for a
\* body that is not JSON or has no symbol; the fallback when no API key is
\* set; else the call of the oracle is under way.
PlAnalyze ==
    /\ pl_pc = "idle"
    /\ pl_reqs_left > 0
    /\ pl_reqs_left' = pl_reqs_left - 1
    /\ \E body \in PlBodies, rows \in PlTables, news_list \in PlLists,
          social_list \in PlLists :
         IF ~body.json
         THEN /\ pl_resp' = Response(400, FALSE, EmptyDoc)
              /\ pl_h' = PlNoLocals
              /\ pl_pc' = "idle"
         ELSE LET symbol == upper_strip(body_get(body, "symbol", ""))
                  timeframe == strip(body_get(body, "timeframe", "15m"))
                  fallback == analyze_fallback(symbol, timeframe, rows, news_list,
                                               social_list)
              IN  IF symbol = ""
                  THEN /\ pl_resp' = Response(400, FALSE, EmptyDoc)
                       /\ pl_h' = PlNoLocals
                       /\ pl_pc' = "idle"
                  ELSE IF ~gemini_api_key
                  THEN /\ pl_resp' = Response(200, TRUE, fallback)
                       /\ pl_h' = [PlNoLocals EXCEPT !.symbol = symbol,
                                                     !.fallback = fallback]
                       /\ pl_pc' = "idle"
                  ELSE /\ pl_resp' = NoResponse
                       /\ pl_h' = [PlNoLocals EXCEPT !.symbol = symbol,
                                                     !.fallback = fallback]
                       /\ pl_pc' = "oracle"
    /\ UNCHANGED gemini_api_key
    /\ UNCHANGED not_pl_vars

\* store.get_recent_news or get_recent_social raises (Redis is unreachable):
\* nothing catches it, aiohttp answers 500.
PlStoreFail ==
    /\ pl_pc = "idle"
    /\ pl_reqs_left > 0
    /\ pl_reqs_left' = pl_reqs_left - 1
    /\ \E body \in PlBodies :
         /\ body.json
         /\ upper_strip(body_get(body, "symbol", "")) # ""
         /\ pl_h' = [PlNoLocals EXCEPT
                       !.symbol = upper_strip(body_get(body, "symbol", ""))]
    /\ pl_resp' = Response(500, FALSE, EmptyDoc)
    /\ pl_pc' = "idle"
    /\ UNCHANGED gemini_api_key
    /\ UNCHANGED not_pl_vars

\* await gemini.generate_json(...) ends: its result is returned as it is; on
\* any exception the fallback is returned.
PlOracle ==
    /\ pl_pc = "oracle"
    /\ \E reply \in OracleReplies :
         LET out == generate_json(reply)
         IN  /\ pl_resp' = Response(200, TRUE,
                                    IF out.raised THEN pl_h.fallback ELSE out.value)
             /\ pl_h' = [pl_h EXCEPT !.reply = reply]
    /\ pl_pc' = "idle"
    /\ UNCHANGED <<pl_reqs_left, gemini_api_key>>
    /\ UNCHANGED not_pl_vars

handle_analyze == PlAnalyze \/ PlStoreFail \/ PlOracle

----------------------------------------------------------------------------
(* Part V: market-streamer, run_streamer_loop *)

(* Bounds *)
MaxStEvents == 2
MaxStEnds == 5

(* Settings (config.py defaults), in seconds *)
reconnect_min_delay_sec == 1
reconnect_max_delay_sec == 30

\* random.uniform(0, base * 0.25): the jitter is any value of that interval;
\* the model takes its ends and its middle, in milliseconds.
Jitters(base) == {0, base \div 8, base \div 4}

\* exp_backoff_delay: base = min(max_delay, min_delay * (2 ** (attempt - 1)))
exp_backoff_base(attempt, min_delay, max_delay) ==
    Min(max_delay, min_delay * (2 ^ (attempt - 1)))
\* exp_backoff_delay: return min(max_delay, base + jitter)
exp_backoff_delay(base, jitter, max_delay) == Min(max_delay, base + jitter)

\* Top of the while loop: attempt = 0, then the session and the websocket are
\* opened and the symbols subscribed; the stream is on.
StOpen ==
    /\ st_pc = "top"
    /\ st_ends_left > 0
    /\ st_attempt' = 0
    /\ st_pc' = "stream"
    /\ UNCHANGED <<st_base, st_delay, st_published, st_failures, st_last_end,
                   st_slept, st_events_left, st_ends_left>>
    /\ UNCHANGED not_st_vars

\* except Exception: attempt += 1, delay = exp_backoff_delay(attempt, min, max),
\* then asyncio.sleep(delay) begins.
StExcept(attempt) ==
    LET base == exp_backoff_base(attempt + 1, reconnect_min_delay_sec * THOUSAND,
                                 reconnect_max_delay_sec * THOUSAND)
    IN  /\ st_attempt' = attempt + 1
        /\ st_base' = base
        /\ \E jitter \in Jitters(base) :
             st_delay' = exp_backoff_delay(base, jitter,
                                           reconnect_max_delay_sec * THOUSAND)
        /\ st_failures' = st_failures + 1
        /\ st_last_end' = "raised"
        /\ st_slept' = 0
        /\ st_ends_left' = st_ends_left - 1
        /\ st_pc' = "sleep"

\* Top of the while loop: attempt = 0, then ws_connect (or the subscription)
\* raises.
StOpenFail ==
    /\ st_pc = "top"
    /\ st_ends_left > 0
    /\ StExcept(0)
    /\ UNCHANGED <<st_published, st_events_left>>
    /\ UNCHANGED not_st_vars

\* The provider yields a trade event and publish_json returns.
StEvent ==
    /\ st_pc = "stream"
    /\ st_events_left > 0
    /\ st_events_left' = st_events_left - 1
    /\ st_published' = st_published + 1
    /\ st_failures' = 0
    /\ UNCHANGED <<st_pc, st_attempt, st_base, st_delay, st_last_end, st_slept,
                   st_ends_left>>
    /\ UNCHANGED not_st_vars

\* The stream raises (connection lost, heartbeat missed) or publish_json does.
StStreamFail ==
    /\ st_pc = "stream"
    /\ StExcept(st_attempt)
    /\ UNCHANGED <<st_published, st_events_left>>
    /\ UNCHANGED not_st_vars

\* The server sends a CLOSED or ERROR frame: connect_and_stream breaks out of
\* its loop and returns, the async for ends without an exception and the while
\* loop starts over.
StClosed ==
    /\ st_pc = "stream"
    /\ st_failures' = 0
    /\ st_last_end' = "closed"
    /\ st_slept' = 0
    /\ st_ends_left' = st_ends_left - 1
    /\ st_pc' = "top"
    /\ UNCHANGED <<st_attempt, st_base, st_delay, st_published, st_events_left>>
    /\ UNCHANGED not_st_vars

\* asyncio.sleep(delay) returns.
StWake ==
    /\ st_pc = "sleep"
    /\ st_slept' = st_delay
    /\ st_pc' = "top"
    /\ UNCHANGED <<st_attempt, st_base, st_delay, st_published, st_failures,
                   st_last_end, st_events_left, st_ends_left>>
    /\ UNCHANGED not_st_vars

run_streamer_loop ==
    \/ StOpen
    \/ StOpenFail
    \/ StEvent
    \/ StStreamFail
    \/ StClosed
    \/ StWake

----------------------------------------------------------------------------
(* Specifications *)

\* The event-fusion-engine with its budgets; a symbol's news list starts empty
\* or with the items of a busy second.
BacklogList(n) ==
    [items |-> [i \in 1..n |->
                  [payload |-> dumps([ts_unix |-> FuStepSec]), seq |-> n - i + 1]],
     expire_at |-> FuStepSec + ttl_sec,
     appended_at |-> FuStepSec]
FuInitWith(n_slots, n_msgs, n_candles, n_clock, backlogs) ==
    /\ now_unix = FuStepSec
    /\ fu_slots = n_slots
    /\ fu_clock_left = n_clock
    /\ msgs_left = n_msgs
    /\ candles_left = n_candles
    /\ \E n \in backlogs, sym \in FuSymbols :
         lists = IF n = 0 THEN NoKeys
                 ELSE Put(NoKeys, news_key(sym), BacklogList(n))
    /\ latest = NoKeys
    /\ fbus = <<>>
    /\ fpc = [p \in FuProcs |-> "idle"]
    /\ fh = [p \in FuProcs |-> FuNoLocals]
    /\ fc = [p \in FuProcs |-> NoCandle]

\* The quote-normalizer with its budgets.
QnStart(n_slots, n_trades, n_clock, n_idle) ==
    /\ now_ms = MINUTE_MS \div 2
    /\ clock_left = n_clock
    /\ idle_left = n_idle
    /\ slots = n_slots
    /\ trades_left = n_trades
    /\ kv = NoKeys
    /\ received = NoKeys
    /\ table = {}
    /\ bus = <<>>
    /\ pc = [p \in FlushProcs |-> "idle"]
    /\ fl = [p \in FlushProcs |-> NoLocals]

\* The services a specification does not exercise stand still.
QnIdle == QnStart(0, 0, 0, 0)
FuIdle == FuInitWith(0, 0, 0, 0, {0})
MbIdle == mb_t = NoT /\ mb_result = <<>>
SxIdle == sx_text = <<>> /\ sx_result = NotCalled
FnIdle == sev_args = NoArgs /\ sev_result = NoResult /\ MbIdle /\ SxIdle

\* The alert-engine with its budgets; the credentials are fixed at start.
AeInitWith(n_slots, n_msgs, n_clock, channel_settings) ==
    /\ ae_now = AeStepSec
    /\ ae_slots = n_slots
    /\ ae_clock_left = n_clock
    /\ ae_msgs_left = n_msgs
    /\ cooldown = NoKeys
    /\ calls = NoCalls
    /\ apc = [p \in AeProcs |-> "idle"]
    /\ ah = [p \in AeProcs |-> AeNoLocals]
    /\ settings \in channel_settings
AeIdle == AeInitWith(0, 0, 0, {[telegram |-> FALSE, line |-> FALSE]})

\* The trade-planner-worker with its budget; the API key is fixed at start.
PlInitWith(n_reqs, keys) ==
    /\ pl_reqs_left = n_reqs
    /\ pl_pc = "idle"
    /\ pl_h = PlNoLocals
    /\ pl_resp = NoResponse
    /\ gemini_api_key \in keys
PlIdle == PlInitWith(0, {FALSE})

\* No push request has been delivered yet.
InIdle == in_req = NoRequest /\ in_status = 0

\* The market-streamer before its first connection, with its budgets.
StInitWith(n_events, n_ends) ==
    /\ st_pc = "top"
    /\ st_attempt = 0
    /\ st_base = 0
    /\ st_delay = 0
    /\ st_published = 0
    /\ st_failures = 0
    /\ st_last_end = "none"
    /\ st_slept = 0
    /\ st_events_left = n_events
    /\ st_ends_left = n_ends
StIdle == StInitWith(0, 0)

QnInitWith(n_slots, n_trades, n_clock, n_idle) ==
    /\ QnStart(n_slots, n_trades, n_clock, n_idle)
    /\ FuIdle
    /\ FnIdle
    /\ AeIdle
    /\ PlIdle
    /\ InIdle
    /\ StIdle

QnNext ==
    \/ PubsubDelivery
    \/ Tick
    \/ \E p \in FlushProcs : handle_flush(p)

\* One /flush at a time (the Scheduler's periodic call).
Init == QnInitWith(1, MaxTrades, MaxClock + 1, MaxIdle)
Next == QnNext
Spec == Init /\ [][Next]_vars

\* The aggregator fed with exchange-prefixed symbols, one /flush at a time.
ExchangeInit == QnInitWith(1, MaxTrades, MaxClock, 0)
ExchangeNext ==
    \/ ExchangeDelivery
    \/ Tick
    \/ \E p \in FlushProcs : handle_flush(p)
ExchangeSpec == ExchangeInit /\ [][ExchangeNext]_vars

\* Redis is shared and outlives the service: the store starts with one hash
\* that the script did not write, a candle of minute 0 of another symbol with a
\* field missing or holding text that is not a number.
DamagedSymbol == <<"MSFT">>
SoundHash ==
    [open |-> 1, high |-> 1, low |-> 1, close |-> 1, volume |-> 1,
     last_update_ms |-> MINUTE_MS \div 4]
DamagedKinds == {"no open", "volume abc", "no last_update_ms", "last_update_ms abc"}
DamagedHash(kind) ==
    CASE kind = "no open" -> Remove(SoundHash, "open")
      [] kind = "volume abc" -> Put(SoundHash, "volume", NotANumber)
      [] kind = "no last_update_ms" -> Remove(SoundHash, "last_update_ms")
      [] kind = "last_update_ms abc" -> Put(SoundHash, "last_update_ms", NotANumber)
DamagedInit ==
    /\ now_ms = MINUTE_MS \div 2
    /\ clock_left = MaxClock
    /\ idle_left = 0
    /\ slots = 1
    /\ trades_left = MaxTrades
    /\ \E kind \in DamagedKinds :
         kv = Put(NoKeys, candle_key(DamagedSymbol, 0),
                  [fields |-> DamagedHash(kind),
                   expire_at |-> now_ms + candle_ttl_sec * 1000])
    /\ received = NoKeys
    /\ table = {}
    /\ bus = <<>>
    /\ pc = [p \in FlushProcs |-> "idle"]
    /\ fl = [p \in FlushProcs |-> NoLocals]
    /\ FuIdle
    /\ FnIdle
    /\ AeIdle
    /\ PlIdle
    /\ InIdle
    /\ StIdle
DamagedSpec == DamagedInit /\ [][Next]_vars

\* Overlapping /flush requests.
OverlapInit == QnInitWith(2, MaxOverlapTrades, MaxClock, 0)
OverlapSpec == OverlapInit /\ [][Next]_vars

\* The Scheduler keeps calling /flush and every started handler runs on; the
\* clock advances; the table does not refuse the upsert forever. No idle period
\* as long as a key's life occurs.
LiveInit == QnInitWith(1, MaxTrades, MaxClock, 0)
\* A handler is sequential: its position enables at most one of its steps, so
\* weak fairness of the handler is weak fairness of each step. With one /flush
\* at a time the requests run in the first slot.
LiveFairness ==
    /\ WF_vars(Tick)
    /\ \A p \in {q \in FlushProcs : \A r \in FlushProcs : q <= r} :
         /\ WF_vars(\/ FlushStart(p)
                    \/ FlushGet(p)
                    \/ FlushPublishOk(p) \/ FlushPublishFail(p)
                    \/ FlushDelete(p)
                    \/ FlushDone(p))
         /\ SF_vars(FlushUpsertOk(p))
LiveSpec == LiveInit /\ [][Next]_vars /\ LiveFairness

\* The event-fusion-engine ingesting news and social messages.
FusionInit ==
    /\ QnIdle
    /\ FuInitWith(2, MaxMsgs, 0, MaxFuClock, Backlogs)
    /\ FnIdle
    /\ AeIdle
    /\ PlIdle
    /\ InIdle
    /\ StIdle
FusionNext ==
    \/ FuTick
    \/ \E p \in FuProcs : fu_handle_pubsub(p)
FusionSpec == FusionInit /\ [][FusionNext]_vars

\* The fusion joiner, one request at a time (an instance runs a handler to its
\* end: handle_pubsub awaits nothing after the request body): candle_1m
\* deliveries next to news and social ones.
MaxJoinMsgs == 1
MaxJoinCandles == 2
MaxJoinClock == 2
JoinInit ==
    /\ QnIdle
    /\ FuInitWith(1, MaxJoinMsgs, MaxJoinCandles, MaxJoinClock, {0})
    /\ FnIdle
    /\ AeIdle
    /\ PlIdle
    /\ InIdle
    /\ StIdle
JoinNext ==
    \/ FuTick
    \/ \E p \in FuProcs : fu_handle_pubsub(p)
    \/ \E p \in FuProcs : fu_handle_candle(p)
JoinSpec == JoinInit /\ [][JoinNext]_vars

\* The joiner with evidence already buffered: the symbol's news list and its
\* social list start with none, four or six items of the same second.
MaxEvidenceMsgs == 1
MaxEvidenceCandles == 1
MaxEvidenceClock == 1
EvidenceBacklogs == {0, HEADLINES_MAX - 1, HEADLINES_MAX + 1}
EvidenceInit ==
    /\ QnIdle
    /\ now_unix = FuStepSec
    /\ fu_slots = 1
    /\ fu_clock_left = MaxEvidenceClock
    /\ msgs_left = MaxEvidenceMsgs
    /\ candles_left = MaxEvidenceCandles
    /\ \E n \in EvidenceBacklogs, m \in EvidenceBacklogs, sym \in FuSymbols :
         lists = [k \in {news_key(sym) : x \in {n} \ {0}} \cup
                        {social_key(sym) : x \in {m} \ {0}} |->
                    IF k = news_key(sym) THEN BacklogList(n) ELSE BacklogList(m)]
    /\ latest = NoKeys
    /\ fbus = <<>>
    /\ fpc = [p \in FuProcs |-> "idle"]
    /\ fh = [p \in FuProcs |-> FuNoLocals]
    /\ fc = [p \in FuProcs |-> NoCandle]
    /\ FnIdle
    /\ AeIdle
    /\ PlIdle
    /\ InIdle
    /\ StIdle
EvidenceSpec == EvidenceInit /\ [][JoinNext]_vars

\* Joiner and alert-engine in a row: NVDA has two or three news items buffered
\* in this second and no social item; the candle arrives once, the fused event
\* is pushed up to MaxPipeDeliveries times; the clock stands still.
MaxPipeCandles == 1
MaxPipeDeliveries == 2
PipeBacklogs == {2, 3}
PipelineInit ==
    /\ QnIdle
    /\ now_unix = FuStepSec
    /\ fu_slots = 1
    /\ fu_clock_left = 0
    /\ msgs_left = 0
    /\ candles_left = MaxPipeCandles
    /\ \E n \in PipeBacklogs : lists = Put(NoKeys, news_key("NVDA"), BacklogList(n))
    /\ latest = NoKeys
    /\ fbus = <<>>
    /\ fpc = [p \in FuProcs |-> "idle"]
    /\ fh = [p \in FuProcs |-> FuNoLocals]
    /\ fc = [p \in FuProcs |-> NoCandle]
    /\ FnIdle
    /\ AeInitWith(1, MaxPipeDeliveries, 0, ChannelSettings)
    /\ PlIdle
    /\ InIdle
    /\ StIdle
PipelineNext ==
    \/ \E p \in FuProcs :
         \/ PipeCandleIngest(p)
         \/ FuCandleSetClose(p)
         \/ FuCandleReadNews(p)
         \/ FuCandleReadSocial(p)
         \/ FuCandleKvFail(p)
         \/ FuCandlePublishOk(p)
         \/ FuCandlePublishFail(p)
         \/ FuRaised(p)
    \/ \E p \in AeProcs :
         \/ PipeDeliver(p)
         \/ AeGate(p)
         \/ AeGateFail(p)
         \/ AeTelegramOk(p)
         \/ AeTelegramFail(p)
         \/ AeLineOk(p)
         \/ AeLineFail(p)
         \/ AeSetCooldown(p)
         \/ AeSetCooldownFail(p)
         \/ AeRaised(p)
PipelineSpec == PipelineInit /\ [][PipelineNext]_vars

\* The market-streamer alone.
StreamerInit ==
    /\ QnIdle
    /\ FuIdle
    /\ FnIdle
    /\ AeIdle
    /\ PlIdle
    /\ InIdle
    /\ StInitWith(MaxStEvents, MaxStEnds)
StreamerNext == run_streamer_loop
StreamerSpec == StreamerInit /\ [][StreamerNext]_vars

\* extract_symbols_from_text called on every text of up to MaxTextLen characters.
TextsUpTo(n) == UNION {[1..k -> TextChars] : k \in 0..n}
SymbolsInit ==
    /\ QnIdle
    /\ FuIdle
    /\ sev_args = NoArgs
    /\ sev_result = NoResult
    /\ MbIdle
    /\ sx_text \in TextsUpTo(MaxTextLen)
    /\ sx_result = NotCalled
    /\ AeIdle
    /\ PlIdle
    /\ InIdle
    /\ StIdle
SymbolsNext == SymbolsCall
SymbolsSpec == SymbolsInit /\ [][SymbolsNext]_vars

\* compute_severity called on a grid of arguments.
SeverityInit ==
    /\ QnIdle
    /\ FuIdle
    /\ sev_args \in [pct : SevPcts, news_count : 0..MaxSevNews,
                     social_count : 0..MaxSevSocial]
    /\ sev_result = NoResult
    /\ MbIdle
    /\ SxIdle
    /\ AeIdle
    /\ PlIdle
    /\ InIdle
    /\ StIdle
SeverityNext == SevCall
SeveritySpec == SeverityInit /\ [][SeverityNext]_vars

\* The alert-engine alone: two requests may be in flight together, under every
\* configuration of the two channels.
AlertInit ==
    /\ QnIdle
    /\ FuIdle
    /\ FnIdle
    /\ AeInitWith(2, MaxAeMsgs, MaxAeClock, ChannelSettings)
    /\ PlIdle
    /\ InIdle
    /\ StIdle
AlertNext ==
    \/ AeTick
    \/ \E p \in AeProcs : ae_handle_pubsub(p)
AlertSpec == AlertInit /\ [][AlertNext]_vars

\* The alert-engine with two requests in flight together and the clock
\* standing still: everything happens within one second.
AlertOverlapInit ==
    /\ QnIdle
    /\ FuIdle
    /\ FnIdle
    /\ AeInitWith(2, MaxAeMsgs, 0, ChannelSettings)
    /\ PlIdle
    /\ InIdle
    /\ StIdle
AlertOverlapNext == \E p \in AeProcs : ae_handle_pubsub(p)
AlertOverlapSpec == AlertOverlapInit /\ [][AlertOverlapNext]_vars

\* The trade-planner-worker alone, with and without an API key.
AnalyzeInit ==
    /\ QnIdle
    /\ FuIdle
    /\ FnIdle
    /\ AeIdle
    /\ PlInitWith(MaxAnalyze, BOOLEAN)
    /\ InIdle
    /\ StIdle
AnalyzeNext == handle_analyze
AnalyzeSpec == AnalyzeInit /\ [][AnalyzeNext]_vars

\* The /pubsub endpoint of the quote-normalizer under every kind of push
\* request, with the clock moving between deliveries.
MaxPushes == 3
MaxPushClock == 2
PushInit ==
    /\ QnStart(0, MaxPushes, MaxPushClock, 0)
    /\ FuIdle
    /\ FnIdle
    /\ AeIdle
    /\ PlIdle
    /\ InIdle
    /\ StIdle
PushNext == PushDelivery \/ Tick
PushSpec == PushInit /\ [][PushNext]_vars

\* minute_bucket_ms on every timestamp of the first two minutes and a little
\* more.
BucketInit ==
    /\ QnIdle
    /\ FuIdle
    /\ sev_args = NoArgs
    /\ sev_result = NoResult
    /\ mb_t \in 0..MaxBucketT
    /\ mb_result = <<>>
    /\ SxIdle
    /\ AeIdle
    /\ PlIdle
    /\ InIdle
    /\ StIdle
BucketNext == BucketCall
BucketSpec == BucketInit /\ [][BucketNext]_vars

\* A fixed feed and one finalizer call. Times are milliseconds after
\* 1699999980000, a whole number of minutes (28333333 * 60000) that minute
\* bucketing commutes with; it stands for 0 here because the timestamps of
\* this decade do not fit TLC's 32-bit integers. The three trades carry
\* 1700000005000, 1700000030000 and 1700000055000, the finalizer is called at
\* 1700000200000; until then the clock moves in steps of 15 s and each trade
\* is delivered at some time, in the order of the feed.
ScenarioFeed ==
    << Trade(<<"TSLA">>, (5 * MINUTE_MS) \div 12, 200, 5),
       Trade(<<"TSLA">>, (5 * MINUTE_MS) \div 6, 210, 2),
       Trade(<<"TSLA">>, MINUTE_MS + MINUTE_MS \div 4, 205, 3) >>
ScenarioFlushAt == 3 * MINUTE_MS + (2 * MINUTE_MS) \div 3
ScenarioStepMs == MINUTE_MS \div 4
ScenarioSteps == (ScenarioFlushAt - ScenarioFeed[1].ts_ms) \div ScenarioStepMs

ScenarioTrade ==
    /\ trades_left > 0
    /\ qn_handle_pubsub(ScenarioFeed[Len(ScenarioFeed) - trades_left + 1])

ScenarioTick ==
    /\ clock_left > 0
    /\ now_ms' = now_ms + ScenarioStepMs
    /\ clock_left' = clock_left - 1
    /\ LET live == {k \in DOMAIN kv : kv[k].expire_at > now_ms + ScenarioStepMs}
       IN /\ kv' = [k \in live |-> kv[k]]
          /\ received' = [k \in live \cap DOMAIN received |-> received[k]]
    /\ UNCHANGED <<idle_left, slots, trades_left, table, bus, pc, fl>>
    /\ UNCHANGED not_qn_vars

ScenarioFlush ==
    /\ trades_left = 0
    /\ clock_left = 0
    /\ handle_flush(1)

ScenarioInit ==
    /\ now_ms = ScenarioFeed[1].ts_ms
    /\ clock_left = ScenarioSteps
    /\ idle_left = 0
    /\ slots = 1
    /\ trades_left = Len(ScenarioFeed)
    /\ kv = NoKeys
    /\ received = NoKeys
    /\ table = {}
    /\ bus = <<>>
    /\ pc = [p \in FlushProcs |-> "idle"]
    /\ fl = [p \in FlushProcs |-> NoLocals]
    /\ FuIdle
    /\ FnIdle
    /\ AeIdle
    /\ PlIdle
    /\ InIdle
    /\ StIdle
ScenarioNext ==
    \/ ScenarioTrade
    \/ ScenarioTick
    \/ ScenarioFlush
ScenarioSpec == ScenarioInit /\ [][ScenarioNext]_vars

----------------------------------------------------------------------------
(* Claims about the quote-normalizer *)

SameKey(a, b) == a.symbol = b.symbol /\ a.minute_ts_ms = b.minute_ts_ms
RowsOf(key) ==
    {r \in table : r.symbol = key_symbol(key) /\ r.minute_ts_ms = key_minute(key)}

\* C1: for every (symbol, minute_bucket) at most one candle_1m event is ever
\* published, whatever the interleaving of trade deliveries (late ones
\* included) and finalizer runs.
C1_PublishedAtMostOnce ==
    \A i, j \in DOMAIN bus : SameKey(bus[i], bus[j]) => i = j

\* C2: while a key exists its hash is the summary of the trades received for
\* it: open = first price, close = last price, last_update_ms = last timestamp,
\* high = maximum, low = minimum, volume = sum; hence low <= open, close <= high.
C2_OpenCandleIsSummary ==
    \A key \in DOMAIN received :
        /\ key \in DOMAIN kv
        /\ LET c == kv[key].fields
               h == received[key]
           IN /\ c.open = h.first_price
              /\ c.close = h.last_price
              /\ c.last_update_ms = h.last_ts_ms
              /\ c.high = h.max_price
              /\ c.low = h.min_price
              /\ c.volume = h.sum_volume
              /\ c.low <= c.open /\ c.open <= c.high
              /\ c.low <= c.close /\ c.close <= c.high

\* A candle that took a rise and then a fall: every field has its own value.
C2_Witness ==
    \E key \in DOMAIN received :
        /\ received[key].count >= 2
        /\ kv[key].fields.high > kv[key].fields.low
        /\ kv[key].fields.open # kv[key].fields.close
        /\ kv[key].fields.volume >= 1

\* C3: a row of the candle table never changes once written (the model's rows
\* are exactly symbol, minute, open, high, low, close, volume).
C3_RowsImmutable == [][table \subseteq table']_vars

C5_UpsertPublishDelete ==
    /\ [][bus' # bus =>
            \E p \in FlushProcs :
                /\ pc[p] = "publish"
                /\ bus' = Append(bus, candle_event(fl[p].row))
                /\ \E r \in table : SameKey(r, fl[p].row)]_vars
    /\ [][\A p \in FlushProcs :
             (pc[p] = "delete" /\ pc'[p] = "loop") =>
                 \E r \in table : SameKey(r, fl[p].row)]_vars
    /\ [][\A p \in FlushProcs :
             (pc[p] = "upsert" /\ pc'[p] \notin {"upsert", "publish"}) =>
                 /\ pc'[p] = "loop"
                 /\ UNCHANGED <<bus, kv, table>>
                 /\ fl[p].key \notin fl'[p].todo]_vars

\* In one run an upsert failed and its key is still there, while another
\* candle went through and was published.
C5_Witness ==
    \E p \in FlushProcs :
        /\ pc[p] = "loop"
        /\ fl[p].errors >= 1
        /\ fl[p].flushed >= 1
        /\ bus # <<>>
        /\ \E key \in DOMAIN kv : RowsOf(key) = {}

AllKeys == {candle_key(s, m) : s \in Symbols, m \in KeyMinutes}
Done(key) == key \notin DOMAIN kv /\ RowsOf(key) # {}

\* C6: every OpenCandle with well-formed fields eventually reaches DONE (its
\* row is in the candle table and its key is deleted), given that finalizer
\* runs keep occurring, the clock passes its minute plus the grace period, the
\* upsert does not fail forever and the key's TTL does not lapse first.
C6_EventuallyDone ==
    \A key \in AllKeys :
        (key \in DOMAIN kv /\ WellFormed(kv[key].fields)) ~> Done(key)

\* Both minutes were opened, finalized and deleted.
C6_Witness ==
    /\ \A key \in AllKeys : Done(key)
    /\ Len(bus) >= 2

----------------------------------------------------------------------------
(* Claims about the FusionStore *)

EvidenceKeys == {news_key(sym) : sym \in FuSymbols} \cup {social_key(sym) : sym \in FuSymbols}
ItemsOf(key) == [i \in DOMAIN lists[key].items |-> loads(lists[key].items[i].payload)]
AllIdle == \A p \in FuProcs : fpc[p] = "idle"

\* What the store does keep: every list is the run of its newest appends, in
\* arrival order newest first, up to LTRIM_STOP + 1 of them.
BufferIsNewestArrivals ==
    \A key \in DOMAIN lists :
        LET items == lists[key].items
        IN  /\ items # <<>>
            /\ Len(items) = Min(Head(items).seq, LTRIM_STOP + 1)
            /\ \A i \in DOMAIN items : items[i].seq = Head(items).seq - i + 1

\* C7: after any sequence of appends, sequential or concurrent, the evidence
\* list of any (kind, symbol) never holds more than 50 items.
C7_AtMostFiftyItems ==
    \A key \in DOMAIN lists : Len(lists[key].items) <= MAX_ITEMS

\* C8: append is atomic: no state visible to a reader holds a list longer than
\* the cap of 50, and once all concurrent appends have completed each list is
\* exactly its most recently appended items up to that cap, newest first in
\* arrival order, none of them lost.
C8_AppendAtomic ==
    \A key \in DOMAIN lists :
        LET items == lists[key].items
        IN  /\ Len(items) <= MAX_ITEMS
            /\ AllIdle =>
                 /\ Len(items) = Min(Head(items).seq, MAX_ITEMS)
                 /\ \A i \in DOMAIN items : items[i].seq = Head(items).seq - i + 1

\* C9: recent(kind, symbol, lookback_sec) returns exactly the stored items of
\* that (kind, symbol) with now - ts <= lookback_sec, newest first, never more
\* than 50 of them, and never an item older than the lookback.
WithinLookback(item, lookback_sec) == now_unix - item.ts_unix <= lookback_sec
StoredWithin(key, lookback_sec) ==
    LET Keep(item) == WithinLookback(item, lookback_sec)
    IN  IF key \in DOMAIN lists THEN SelectSeq(ItemsOf(key), Keep) ELSE <<>>
RecentIsExact(key, lookback_sec) ==
    LET out == get_recent(key, lookback_sec)
    IN  /\ out = StoredWithin(key, lookback_sec)
        /\ Len(out) <= MAX_ITEMS
        /\ \A i \in DOMAIN out : WithinLookback(out[i], lookback_sec)
C9_RecentExact ==
    \A sym \in FuSymbols :
        /\ get_recent_news(sym, news_lookback_sec)
             = get_recent(news_key(sym), news_lookback_sec)
        /\ get_recent_social(sym, social_lookback_sec)
             = get_recent(social_key(sym), social_lookback_sec)
        /\ RecentIsExact(news_key(sym), news_lookback_sec)
        /\ RecentIsExact(social_key(sym), social_lookback_sec)

\* C10, as stated: in every reachable state every item held in an evidence
\* buffer has now - ingested_at_unix <= retention_window (7200 s).
C10_ItemsWithinRetention ==
    \A key \in DOMAIN lists :
        \A i \in DOMAIN lists[key].items :
            now_unix - ItemsOf(key)[i].ts_unix <= ttl_sec

\* C10, amended: the retention window runs for the list as a whole from its
\* latest append: every list that exists received its most recent append less
\* than retention_window seconds ago, and dies at that append's time plus the
\* window. An item of such a list may itself be older than the window.
C10_ListWithinRetention ==
    \A key \in DOMAIN lists :
        /\ now_unix - lists[key].appended_at < ttl_sec
        /\ lists[key].expire_at = lists[key].appended_at + ttl_sec

\* A list kept alive by a later append holds an item older than the window.
C10_Witness ==
    \E key \in DOMAIN lists :
        /\ Len(lists[key].items) >= 2
        /\ now_unix - ItemsOf(key)[Len(lists[key].items)].ts_unix > ttl_sec
        /\ now_unix - lists[key].appended_at < ttl_sec

----------------------------------------------------------------------------
(* Claims about the fusion joiner *)

KvSteps == {"set_close", "read_news", "read_social"}
\* |change_pct| >= 0.25 with change_pct = (close - open) / open * 100, and 0
\* when open <= 0, in integers: |close - open| * 400 >= open.
MeaningfulMove(open, close) == open > 0 /\ Abs(close - open) * 400 >= open

\* C11: with the KV store unavailable an append is a no-op that surfaces no
\* error: the handler of a news or social message never ends in an exception
\* (a 5xx), it acknowledges the message.
C11_IngestNeverRaises ==
    \A p \in FuProcs : ~(fpc[p] = "raised" /\ fh[p].kind \in Kinds)

\* C12: a KV operation that fails while the joiner handles a candle with
\* |change_pct| >= join_threshold does not stop it: the handler never leaves a
\* KV call with an exception, it goes on (with empty evidence) to publish.
C12_KvFailureStillFuses ==
    [][\A p \in FuProcs :
         (/\ fpc[p] \in KvSteps
          /\ MeaningfulMove(fc[p].candle.open, fc[p].candle.close))
         => fpc'[p] # "raised"]_vars

----------------------------------------------------------------------------
(* Claims about compute_severity *)

\* The severity of the design: clamp(0, 100, round(15 |change_pct|)
\* + min(50, 8 news_count) + min(30, 5 social_count)).
Clamp(lo, hi, n) == Max(lo, Min(hi, n))
SeverityByRounding(pct, news_count, social_count) ==
    LET a == RatAbs(pct)
    IN  Clamp(0, 100, round_half_even(Rat(15 * a.num, a.den))
                      + Min(50, 8 * news_count) + Min(30, 5 * social_count))

\* C14: for every change_pct, news_count >= 0 and social_count >= 0,
\* compute_severity returns clamp(0, 100, round(15 |change_pct|)
\* + min(50, 8 news_count) + min(30, 5 social_count)): the price term is
\* rounded to the nearest integer.
C14_PriceTermIsRounded ==
    sev_result # NoResult =>
        sev_result = SeverityByRounding(sev_args.pct, sev_args.news_count,
                                        sev_args.social_count)

\* C15: severity lies in [0, 100], depends on (|change_pct|, news_count,
\* social_count) only, and does not decrease when |change_pct|, news_count or
\* social_count grows with the other two fixed.
C15_SeverityBoundedMonotone ==
    sev_result # NoResult =>
        LET pct == sev_args.pct
            n == sev_args.news_count
            m == sev_args.social_count
        IN  /\ sev_result \in 0..100
            /\ sev_result = compute_severity(Rat(-pct.num, pct.den), n, m)
            /\ \A q \in SevPcts :
                 Abs(q.num) >= Abs(pct.num) => compute_severity(q, n, m) >= sev_result
            /\ \A n2 \in n..(MaxSevNews + 1) : compute_severity(pct, n2, m) >= sev_result
            /\ \A m2 \in m..(MaxSevSocial + 1) : compute_severity(pct, n, m2) >= sev_result

\* A call whose three terms add up to more than 100 (75 + 50 + 30) returned
\* 100.
C15_Witness ==
    /\ sev_result = 100
    /\ sev_args.pct.num = 5 * SevPctDen
    /\ sev_args.news_count * 8 >= 50
    /\ sev_args.social_count * 5 >= 30

----------------------------------------------------------------------------
(* Claims about the evidence of fused events *)

NewsCount(ev) == ev.fusion_context.news.count
SocialCount(ev) == ev.fusion_context.social.count
BelowCap(key) == key \in DOMAIN lists => Len(lists[key].items) <= LTRIM_STOP

\* C16, as stated: of any two fused events of one symbol the later one has a
\* news count and a social count at least those of the earlier one.
C16_CountsNeverDecrease ==
    \A i, j \in DOMAIN fbus :
        (i < j /\ fbus[i].symbol = fbus[j].symbol)
        => /\ NewsCount(fbus[j]) >= NewsCount(fbus[i])
           /\ SocialCount(fbus[j]) >= SocialCount(fbus[i])

\* C16, amended: the counts of a fused event are the numbers of items within
\* the lookback that the buffers held when the joiner read them; these numbers
\* do not decrease while the clock stands still and the buffer is below its
\* cap. With time they do decrease (items leave the lookback, the list
\* expires), so the counts of successive fusions are not monotone.
C16_CountsAreLookbackCounts ==
    [][/\ \A p \in FuProcs :
            /\ (fpc[p] = "read_news" /\ fpc'[p] = "read_social")
               => fc'[p].recent_news
                    = StoredWithin(news_key(fc[p].candle.symbol), news_lookback_sec)
            /\ (fpc[p] = "read_social" /\ fpc'[p] = "publish")
               => fc'[p].recent_social
                    = StoredWithin(social_key(fc[p].candle.symbol), social_lookback_sec)
            /\ (fpc[p] = "publish" /\ fpc'[p] = "idle")
               => /\ NewsCount(fbus'[Len(fbus')]) = Len(fc[p].recent_news)
                  /\ SocialCount(fbus'[Len(fbus')]) = Len(fc[p].recent_social)
       /\ now_unix' = now_unix
          => \A sym \in FuSymbols :
               /\ BelowCap(news_key(sym))
                  => Len(StoredWithin(news_key(sym), news_lookback_sec)')
                       >= Len(StoredWithin(news_key(sym), news_lookback_sec))
               /\ BelowCap(social_key(sym))
                  => Len(StoredWithin(social_key(sym), social_lookback_sec)')
                       >= Len(StoredWithin(social_key(sym), social_lookback_sec))]_vars

\* Two fusions of one symbol: the earlier saw a news item, the later one, after
\* the item left the lookback, saw none.
C16_Witness ==
    \E i, j \in DOMAIN fbus :
        /\ i < j
        /\ fbus[i].symbol = fbus[j].symbol
        /\ fbus[i].fused_at < fbus[j].fused_at
        /\ NewsCount(fbus[i]) = 1
        /\ NewsCount(fbus[j]) = 0

----------------------------------------------------------------------------
(* Claims about the alert gate *)

\* The thresholds as the specification words them: a valid candle whose move
\* is at least 0.9 % of a positive open, a valid fused event of severity at
\* least 35.
PassesThreshold(m) ==
    /\ m.valid
    /\ \/ /\ m.event_type = "candle_1m"
          /\ m.open > 0
          /\ Abs(m.close - m.open) * 1000 >= 9 * m.open
       \/ /\ m.event_type = "fused_event"
          /\ m.severity >= 35
MarkOf(m) == <<"alert", "cooldown", m.event_type, m.symbol>>
MarkSet(m) == MarkOf(m) \in DOMAIN cooldown
AeStep(p, from) == apc[p] = from /\ apc'[p] # from
CallsOf(channel, m) == calls[<<channel, m.event_type, m.symbol>>]
OneMoreCall(channel, m) ==
    calls' = [calls EXCEPT ![<<channel, m.event_type, m.symbol>>] = @ + 1]

C18_MarkIffAChannelSucceeded ==
    [][\A p \in AeProcs :
         /\ (AeStep(p, "cooldown") /\ apc'[p] = "idle")
            => IF ah[p].telegram_sent \/ ah[p].line_sent
               THEN /\ MarkOf(ah[p].msg) \in DOMAIN cooldown'
                    /\ cooldown'[MarkOf(ah[p].msg)].expire_at
                         = ae_now + (IF ah[p].msg.event_type = "candle_1m"
                                     THEN 180 ELSE 300)
               ELSE cooldown' = cooldown
         /\ (AeStep(p, "telegram") /\ ~settings.telegram) => ~ah'[p].telegram_sent
         /\ (AeStep(p, "line") /\ ~settings.line) => ~ah'[p].line_sent]_vars

\* With Telegram not configured: the delivery of AAPL's candle succeeded on
\* LINE alone and set the mark; the delivery of AAPL's fused event failed on
\* both channels and set none.
C18_Witness ==
    /\ ~settings.telegram
    /\ <<"alert", "cooldown", "candle_1m", "AAPL">> \in DOMAIN cooldown
    /\ calls[<<"line", "fused_event", "AAPL">>] >= 1
    /\ <<"alert", "cooldown", "fused_event", "AAPL">> \notin DOMAIN cooldown
    /\ \A p \in AeProcs : apc[p] = "idle"

\* C19: a step of a handler changes no mark but the one of its own (kind,
\* symbol), and a message that passes its threshold goes on to the channels
\* whenever its own mark is absent, whatever other marks are set.
MarkAt(store, k) == IF k \in DOMAIN store THEN store[k] ELSE <<>>
C20_MarkSuppresses ==
    [][\A p \in AeProcs :
         /\ (AeStep(p, "gate") /\ MarkSet(ah[p].msg))
            => /\ apc'[p] \in {"idle", "raised"}
               /\ calls' = calls
               /\ cooldown' = cooldown
         /\ (apc[p] \in {"gate", "raised"} /\ apc'[p] = "idle")
            => (calls' = calls /\ cooldown' = cooldown)]_vars

\* The 1.5 % move of NVDA is at the cooldown check while NVDA's candle mark,
\* set by one earlier delivery, holds.
C20_Witness ==
    /\ <<"alert", "cooldown", "candle_1m", "NVDA">> \in DOMAIN cooldown
    /\ calls[<<"telegram", "candle_1m", "NVDA">>] = 1
    /\ \E p \in AeProcs :
         /\ apc[p] = "gate"
         /\ ah[p].msg = AeCandle("NVDA", 1000, 985)

----------------------------------------------------------------------------
(* Claims about POST /analyze *)

Conforms(doc) ==
    /\ doc.sections = Sections
    /\ doc.base + doc.bull + doc.bear = 100
    /\ doc.rules >= 2

\* C21, as stated: every answer with ok:true, from the oracle or the
\* fallback, has all its sections, probabilities that sum to 100 and at least
\* two invalidation rules.
C21_AnswersConform ==
    (pl_resp.status = 200 /\ pl_resp.ok) => Conforms(pl_resp.result)

\* The oracle call failed: it raised or timed out, answered with another
\* status than 200, or with a body or text that is not JSON.
OracleFailed(reply) ==
    \/ reply.raises
    \/ reply.status # 200
    \/ ~reply.body_json
    \/ (reply.candidates # <<>> /\ ~reply.candidates[1].json)

\* C22: a request with a symbol that finds no API key, or whose oracle call
\* failed, is answered 200 ok:true with the fallback built for its symbol:
\* probabilities 55, 25, 20, action WATCH, two invalidation rules, two
\* disclosures.
C22_FallbackWhenOracleFails ==
    (/\ pl_pc = "idle"
     /\ pl_h.symbol # ""
     /\ pl_resp.status # 500
     /\ (~gemini_api_key \/ OracleFailed(pl_h.reply)))
    => /\ pl_resp = [status |-> 200, ok |-> TRUE, result |-> pl_h.fallback]
       /\ pl_resp.result.by = "fallback"
       /\ pl_resp.result.snapshot.symbol = pl_h.symbol
       /\ pl_resp.result.base = 55
       /\ pl_resp.result.bull = 25
       /\ pl_resp.result.bear = 20
       /\ pl_resp.result.action = "WATCH"
       /\ pl_resp.result.rules >= 2
       /\ pl_resp.result.disclosures >= 1

\* With an API key set, the oracle answered 429 and the request got the
\* fallback.
C22_Witness ==
    /\ gemini_api_key
    /\ pl_pc = "idle"
    /\ pl_h.reply.status = 429
    /\ pl_resp.ok
    /\ pl_resp.result.by = "fallback"
    /\ pl_resp.result.market_structure.trend = "up"

----------------------------------------------------------------------------
(* Claims about the /pubsub endpoint of the quote-normalizer *)

Delivered == trades_left' # trades_left
IsTrade(req) ==
    /\ req.json
    /\ req.data = "json"
    /\ req.msg # <<>>
    /\ req.msg.event_type = "trade"
\* The key of the minute a trade belongs to, "candle:1m:{symbol}:{minute}".
KeyOfTrade(msg) ==
    <<"candle", "1m">> \o msg.symbol \o <<ToString((msg.ts_ms \div 60000) * 60000)>>

\* C23, as stated: handling a trade whose ts_ms is 0 creates no OpenCandle and
\* changes none.
C23_TradeWithoutTimeDropped ==
    [][(Delivered /\ IsTrade(in_req') /\ "ts_ms" \in DOMAIN in_req'.msg
        /\ in_req'.msg.ts_ms = 0)
       => kv' = kv]_vars

\* A malformed push: a body that is not JSON, data that is not base64 or not
\* JSON, a trade without a required member.
Malformed(req) ==
    \/ ~req.json
    \/ req.data \in {"not_base64", "not_json"}
    \/ (IsTrade(req) /\ ~({"symbol", "ts_ms", "price"} \subseteq DOMAIN req.msg))

\* C26, as stated: every malformed push is answered 204 and leaves the KV
\* store unchanged.
C26_MalformedAcknowledged ==
    [][(Delivered /\ Malformed(in_req'))
       => (in_status' = 204 /\ kv' = kv)]_vars

\* C29, as stated: after a trade is applied to an existing OpenCandle the
\* key's remaining time to live is candle_ttl_sec again.
C29_TtlRefreshedByEveryTrade ==
    [][(/\ Delivered
        /\ IsTrade(in_req')
        /\ in_status' = 204
        /\ {"symbol", "ts_ms", "price"} \subseteq DOMAIN in_req'.msg
        /\ KeyOfTrade(in_req'.msg) \in DOMAIN kv)
       => kv'[KeyOfTrade(in_req'.msg)].expire_at = now_ms + 10800 * 1000]_vars

----------------------------------------------------------------------------
(* Claims about minute_bucket_ms *)

\* C27: for t >= 0 the bucket is a multiple of 60000 with bucket <= t <
\* bucket + 60000, and the bucket of the bucket is the bucket.
C27_BucketFloorsAndIsIdempotent ==
    (mb_t >= 0 /\ mb_result # <<>>)
    => /\ mb_result[1] % 60000 = 0
       /\ mb_result[1] <= mb_t
       /\ mb_t < mb_result[1] + 60000
       /\ mb_result[2] = mb_result[1]

\* The last millisecond of minute 1 was bucketed.
C27_Witness ==
    /\ mb_t = 119999
    /\ mb_result = <<60000, 60000>>

----------------------------------------------------------------------------
(* Claims about the skip tests of the finalizer *)

LastUpdateOf(key) ==
    IF "last_update_ms" \in DOMAIN kv[key].fields
    THEN kv[key].fields.last_update_ms ELSE 0
MinuteOfKey(key) == CHOOSE n \in {0, 60000} : ToString(n) = key[Len(key)]

\* C28: a run started at now works with current_minute = floor(now / 60000) *
\* 60000; it takes up (for upsert, publish, delete) only keys whose minute is
\* below current_minute and whose last_update_ms, as read, is at most
\* current_minute - 120 s; any other key is left as it is: the run removes
\* only the key it took up, writes only the row read from it, publishes only
\* that row.
C28_LiveAndFreshCandlesSkipped ==
    [][\A p \in FlushProcs :
         /\ (pc[p] = "idle" /\ pc'[p] = "loop")
            => /\ fl'[p].current_minute = (now_ms \div 60000) * 60000
               /\ fl'[p].finalize_before_ms = (now_ms \div 60000) * 60000 - 120000
         /\ (pc[p] = "loop" /\ pc'[p] \in {"upsert", "delete_invalid"})
            => /\ fl'[p].key \in DOMAIN kv
               /\ MinuteOfKey(fl'[p].key) < fl[p].current_minute
               /\ LastUpdateOf(fl'[p].key) <= fl[p].current_minute - 120000
         /\ (pc[p] = "loop" /\ pc'[p] = "loop" /\ fl'[p] # fl[p])
            => UNCHANGED <<kv, table, bus>>
         /\ (pc[p] = "upsert" /\ pc'[p] # "upsert")
            => /\ table' \subseteq table \cup {fl[p].row}
               /\ fl[p].row.minute_ts_ms = MinuteOfKey(fl[p].key)
               /\ UNCHANGED <<kv, bus>>
         /\ (pc[p] = "publish" /\ pc'[p] # "publish")
            => /\ bus' \in {bus, Append(bus, [event_type |-> "candle_1m"] @@ fl[p].row)}
               /\ UNCHANGED <<kv, table>>
         /\ (pc[p] \in {"delete", "delete_invalid"} /\ pc'[p] = "loop")
            => /\ DOMAIN kv' = DOMAIN kv \ {fl[p].key}
               /\ \A k \in DOMAIN kv' : kv'[k] = kv[k]
               /\ UNCHANGED <<table, bus>>]_vars

\* A run in its second minute has passed over the candle of minute 0, closed
\* but updated less than two minutes ago, and left it in the store.
C28_Witness ==
    \E p \in FlushProcs, key \in DOMAIN kv :
        /\ pc[p] = "loop"
        /\ fl[p].key = <<>>
        /\ key \notin fl[p].todo
        /\ MinuteOfKey(key) < fl[p].current_minute
        /\ LastUpdateOf(key) > fl[p].finalize_before_ms
        /\ table = {}

----------------------------------------------------------------------------
(* Claims about the fixed feed *)

\* The finalizer has been called after the feed and has written a candle.
ScenarioFinalized ==
    /\ trades_left = 0
    /\ clock_left = 0
    /\ table # {}
ScenarioRow(close, volume) ==
    [symbol |-> <<"TSLA">>, minute_ts_ms |-> 0, open |-> 200, high |-> 210,
     low |-> 200, close |-> close, volume |-> volume]

\* C24, as stated: after the three trades and the finalizer call, the table
\* holds one TSLA candle with open 200, high 210, low 200, close 205, volume 10.
C24_OneCandleOfThreeTrades ==
    ScenarioFinalized => table = {ScenarioRow(205, 10)}

\* C24: the finalized candle is that of the first two trades, minute
\* 1699999980000 with open 200, high 210, low 200, close 210, volume 7, and it
\* is the only row; the third trade lies in the next minute, whose candle
\* (open = close = 205, volume 3, last update inside the grace) stays in the
\* store.
C24_CandleOfTheFirstMinute ==
    /\ table \subseteq {ScenarioRow(210, 7)}
    /\ ScenarioFinalized =>
         /\ table = {ScenarioRow(210, 7)}
         /\ candle_key(<<"TSLA">>, MINUTE_MS) \in DOMAIN kv
         /\ kv[candle_key(<<"TSLA">>, MINUTE_MS)].fields =
              [open |-> 205, high |-> 205, low |-> 205, close |-> 205,
               volume |-> 3, last_update_ms |-> ScenarioFeed[3].ts_ms]

\* The run is over: one row, one event, the first minute's key deleted.
C24_Witness ==
    /\ ScenarioFinalized
    /\ pc[1] = "idle"
    /\ Len(bus) = 1
    /\ DOMAIN kv = {candle_key(<<"TSLA">>, MINUTE_MS)}

----------------------------------------------------------------------------
(* Claims about the evidence a fused event carries *)

\* C30, as stated: every published fused event carries min(5, news count)
\* news items and min(5, social count) social items; read in the claim's
\* favour, by its list of headlines or its list of evidence items for news, by
\* its list of top signals or its list of evidence signals for social.
C30_FiveNewsFiveSocial ==
    \A i \in DOMAIN fbus :
        LET ev == fbus[i]
            n == ev.fusion_context.news.count
            m == ev.fusion_context.social.count
        IN  /\ \/ Len(ev.evidence.news_items) = Min(5, n)
               \/ Len(ev.fusion_context.news.headlines) = Min(5, n)
            /\ \/ Len(ev.evidence.social_signals) = Min(5, m)
               \/ Len(ev.fusion_context.social.top_signals) = Min(5, m)

----------------------------------------------------------------------------
(* Claims about the candle's way from the joiner to the alert *)

NvdaNews == Len(lists[news_key("NVDA")].items)
NvdaFusedMark == <<"alert", "cooldown", "fused_event", "NVDA">>
NvdaFusedCalls(channel) == calls[<<channel, "fused_event", "NVDA">>]

\* C25: with two news items buffered for NVDA inside the lookback and no
\* social item, the +1.2 % candle gives a fused event with news count 2,
\* direction positive and severity 34, and no channel is called nor a mark
\* set; with three items the severity is 42, the handler of the event returns
\* at the gate only when the mark is already set, otherwise it calls the
\* channels and, a channel having delivered, sets the mark of (fused_event,
\* NVDA) for 300 s; once the mark is set no further call is made.
C25_TwoNewsQuietThreeNewsAlert ==
    /\ [](\A i \in DOMAIN fbus :
            /\ fbus[i].symbol = "NVDA"
            /\ fbus[i].price.change_pct_1m = [num |-> 1200, den |-> 1000]
            /\ fbus[i].fusion_context.news.count = NvdaNews
            /\ fbus[i].fusion_context.social.count = 0
            /\ fbus[i].direction = "positive"
            /\ fbus[i].severity = IF NvdaNews = 2 THEN 34 ELSE 42)
    /\ [](NvdaNews = 2 => calls = NoCalls /\ cooldown = NoKeys)
    /\ [](DOMAIN cooldown \subseteq {NvdaFusedMark})
    /\ [][NvdaNews = 3 =>
            \A p \in AeProcs :
              /\ (apc[p] = "gate" /\ apc'[p] = "idle")
                 => NvdaFusedMark \in DOMAIN cooldown
              /\ (apc[p] = "cooldown" /\ apc'[p] = "idle"
                    /\ (ah[p].telegram_sent \/ ah[p].line_sent))
                 => /\ NvdaFusedMark \in DOMAIN cooldown'
                    /\ cooldown'[NvdaFusedMark].expire_at = ae_now + 300
              /\ NvdaFusedMark \in DOMAIN cooldown
                 => calls' = calls /\ cooldown' = cooldown]_vars

\* Three news items: the event's first push ended with a delivery and the
\* mark, the second push was stopped by the mark; each channel was called once.
C25_Witness ==
    /\ NvdaNews = 3
    /\ Len(fbus) = 1
    /\ fbus[1].severity = 42
    /\ ae_msgs_left = 0
    /\ \A p \in AeProcs : apc[p] = "idle"
    /\ NvdaFusedMark \in DOMAIN cooldown
    /\ NvdaFusedCalls("telegram") = 1
    /\ NvdaFusedCalls("line") = 1

----------------------------------------------------------------------------
(* Claims about the reconnection of the market-streamer *)

\* An exception has just been caught: the loop goes to sleep.
StCaught == st_pc # "sleep" /\ st_pc' = "sleep"

\* C31, as stated: on the n-th failure in a row the base of the delay is
\* min(max_delay, min_delay * 2^(n-1)).
C31_BaseDoublesPerFailure ==
    [][StCaught =>
         st_base' = Min(reconnect_max_delay_sec * 1000,
                        reconnect_min_delay_sec * 1000 * (2 ^ (st_failures' - 1)))]_vars

\* C38, as stated: a connection attempt after a stream has ended comes after a
\* sleep of at least reconnect_min_delay_sec.
C38_SleepBeforeEveryReconnect ==
    [][(st_pc = "top" /\ st_pc' # "top" /\ st_last_end # "none")
         => st_slept >= reconnect_min_delay_sec * 1000]_vars

----------------------------------------------------------------------------
(* Claims about a publish that fails *)

\* C32: whether the publish succeeded or failed, the run goes on to delete the
\* key of the candle it upserted and counts it as flushed, leaving table and
\* store as they are until the delete; a key comes into the store only by a
\* trade, a run takes up only keys that are in the store, and an event is
\* published only by the run that took up its key: a candle whose publish
\* failed is published by no later run unless a trade creates its key again.
C32_PublishFailureStillDeletes ==
    /\ [][\A p \in FlushProcs :
            /\ (pc[p] = "publish" /\ pc'[p] # "publish")
               => /\ pc'[p] = "delete"
                  /\ fl'[p] = fl[p]
                  /\ bus' \in {bus, Append(bus, candle_event(fl[p].row))}
                  /\ UNCHANGED <<kv, table>>
            /\ (pc[p] = "delete" /\ pc'[p] # "delete")
               => /\ fl[p].key \notin DOMAIN kv'
                  /\ fl'[p].flushed = fl[p].flushed + 1
                  /\ fl'[p].errors = fl[p].errors
            /\ (pc[p] = "loop" /\ pc'[p] = "upsert")
               => fl'[p].key \in DOMAIN kv]_vars
    /\ [][(DOMAIN kv' \ DOMAIN kv # {}) => trades_left' = trades_left - 1]_vars
    /\ [][bus' # bus =>
            \E p \in FlushProcs :
                /\ pc[p] = "publish"
                /\ bus' = Append(bus, candle_event(fl[p].row))
                /\ key_minute(fl[p].key) = fl[p].row.minute_ts_ms
                /\ key_symbol(fl[p].key) = fl[p].row.symbol]_vars

\* The publish failed: the run has counted the candle, its row is in the table,
\* its key is gone and no event was published.
C32_Witness ==
    \E p \in FlushProcs :
        /\ pc[p] = "loop"
        /\ fl[p].flushed = 1
        /\ fl[p].errors = 0
        /\ bus = <<>>
        /\ Cardinality(table) = 1
        /\ kv = NoKeys

----------------------------------------------------------------------------
(* Claims about the symbols taken from a headline *)

Range(f) == {f[i] : i \in DOMAIN f}
\* The runs of 1 to 5 upper-case letters that stand as words in the text as
\* written.
RunsAsWritten(text) ==
    {SubSeq(text, i, j) : i \in DOMAIN text, j \in DOMAIN text} \cap
    {w \in UNION {[1..k -> {"A"}] : k \in 1..5} :
        \E i \in DOMAIN text :
            /\ i + Len(w) - 1 <= Len(text)
            /\ SubSeq(text, i, i + Len(w) - 1) = w
            /\ (i = 1 \/ text[i - 1] \notin {"A", "a", "1"})
            /\ (i + Len(w) - 1 = Len(text) \/ text[i + Len(w)] \notin {"A", "a", "1"})}

\* C33, as stated: the symbols extracted from a headline are exactly the
\* distinct runs of 1 to 5 upper-case letters that occur in it as written, each
\* once; no word written with a lower-case letter is extracted.
C33_OnlyUpperCaseRuns ==
    sx_result # NotCalled =>
        /\ Range(sx_result) = RunsAsWritten(sx_text)
        /\ Len(sx_result) = Cardinality(Range(sx_result))

----------------------------------------------------------------------------
(* Claims about alerts of requests in flight together *)

\* C34, as stated: two alerts pushed for one (kind, symbol) are at least the
\* cooldown apart, also for requests in flight together. No time passes in
\* AlertOverlapSpec, so no two requests may both have pushed an alert of the
\* same kind and symbol on the same channel.
C34_OnePushPerCooldown ==
    \A p, q \in AeProcs :
        (/\ p # q
         /\ ah[p].msg.event_type = ah[q].msg.event_type
         /\ ah[p].msg.symbol = ah[q].msg.symbol)
        => /\ ~(ah[p].telegram_sent /\ ah[q].telegram_sent)
           /\ ~(ah[p].line_sent /\ ah[q].line_sent)

----------------------------------------------------------------------------
(* Claims about trades that arrive while their candle is finalized *)

\* C35, as stated: finalization loses no trade. When a run deletes the key of
\* a candle it has upserted, the volume of the candle's row is the sum of the
\* volumes of the trades applied to the key, whatever trades came in between
\* the run's read of the hash and its delete.
C35_NoTradeLostByFinalization ==
    [][\A p \in FlushProcs :
         (/\ pc[p] = "delete"
          /\ pc'[p] = "loop"
          /\ fl[p].key \in DOMAIN received)
         => \A r \in RowsOf(fl[p].key) :
                r.volume = received[fl[p].key].sum_volume]_vars

----------------------------------------------------------------------------
(* Claims about the key of an exchange-prefixed symbol *)

\* C36, as stated: the key round trip. The symbol and minute a run parses out
\* of a key give the key back through candle_key, for every symbol the
\* aggregator accepts, those with a ':' included: the row a run is about to
\* upsert, publish or delete carries the symbol and minute of its key.
C36_KeyRoundTrip ==
    \A p \in FlushProcs :
        pc[p] \in {"upsert", "publish", "delete"}
        => candle_key(fl[p].row.symbol, fl[p].row.minute_ts_ms) = fl[p].key

----------------------------------------------------------------------------
(* Claims about the cached latest close *)

\* C37, as stated: after any sequence of candle deliveries for a symbol, in
\* any order, the cache holds the close and minute of the candle with the
\* greatest minute processed so far. While the key lives, a delivery whose
\* set_latest_close returns therefore leaves the cached minute at the greater of the cached one and its own, and
\* changes the close only together with the minute.
C37_LatestCloseIsOfGreatestMinute ==
    [][\A p \in FuProcs :
         LET c == fc[p].candle
             key == latest_close_key(c.symbol)
         IN  (/\ fpc[p] = "set_close"
              /\ fpc'[p] \in {"idle", "read_news"}
              /\ key \in DOMAIN latest)
             => /\ key \in DOMAIN latest'
                /\ int(latest'[key].minute_ts_ms) =
                       Max(int(latest[key].minute_ts_ms), c.minute_ts_ms)
                /\ c.minute_ts_ms < int(latest[key].minute_ts_ms)
                   => latest'[key].close = latest[key].close]_vars

----------------------------------------------------------------------------
(* Claims about a damaged hash among the open candles *)

\* A key a run would finalize if it took it up now.
Finalizable(p, key) ==
    /\ key \in DOMAIN kv
    /\ IsInt(key[Len(key)])
    /\ key_minute(key) < fl[p].current_minute
    /\ ~last_update_ms_raises(kv[key].fields)
    /\ last_update_ms(kv[key].fields) <= fl[p].finalize_before_ms
    /\ WellFormed(kv[key].fields)

\* C39, as stated: one malformed hash never blocks the others. Whatever field
\* of one enumerated hash is missing or unparsable, the run goes on to the end
\* of its scan: it does not end while a key it enumerated is still waiting
\* that it would finalize.
C39_MalformedNeverBlocks ==
    [][\A p \in FlushProcs :
         (pc[p] = "loop" /\ pc'[p] = "idle")
         => \A key \in fl[p].todo : ~Finalizable(p, key)]_vars

----------------------------------------------------------------------------
(* Claims about the evidence that reaches the alert *)

\* C40, as stated: for every fused event of the joiner that the alert gate
\* accepts, the parsed FusedEvent has news_count_lookback equal to the event's
\* news count and top_news equal to the event's news evidence items; with at
\* least one news item top_news is not empty, so that the alert does not
\* render the placeholder for "no news available".
C40_EvidenceReachesTheAlert ==
    \A p \in AeProcs :
        (/\ apc[p] \in {"telegram", "line", "cooldown"}
         /\ ah[p].msg.event_type = "fused_event")
        => \E i \in DOMAIN fbus :
               LET ev == fbus[i]
                   items == ev.evidence.news_items
               IN  /\ ah[p].msg = ae_decode_fused(ev)
                   /\ ah[p].msg.news_count_lookback = ev.fusion_context.news.count
                   /\ ah[p].msg.top_news = [k \in DOMAIN items |-> FusedNewsItem(items[k])]
                   /\ ev.fusion_context.news.count >= 1 => ah[p].msg.top_news # <<>>

====
